---- MODULE Spec2Model ----
(***************************************************************************)
(* The asset-caching subsystem of the Penta Organization site: the service *)
(* worker's cache strategies (sw.js) over the browser's CacheStorage, the  *)
(* network, and the worker's control channel.                              *)
(*                                                                         *)
(* CacheStorage is modelled as the Cache API defines it: a name maps to a  *)
(* Cache object; caches.open creates the object when the name is absent;   *)
(* caches.delete unlinks the name, and a Cache object obtained earlier     *)
(* stays usable but detached (a later caches.open of the same name gives a *)
(* new, empty object).  A Cache object is identified by <<name, gen>>,     *)
(* gen counting the deletions of that name.                                *)
(*                                                                         *)
(* Every await of the source is a separate step, but for a fetch event's   *)
(* dispatch, which is one step with the caches.open its strategy starts    *)
(* with: the listener's synchronous part reads and writes no shared state. *)
(* The handlers of the fetch events are kept as a bag: the handlers of two *)
(* events have no identity beyond their state.                             *)
(***************************************************************************)
EXTENDS Integers, Sequences, FiniteSets, Bags, TLC

\* ------------------------------------------------------------------ bounds
\* Fetch events handled by the worker in one behaviour.
MaxTasks == 2
\* CLEAR_CACHE messages handled by the worker in one behaviour.
MaxClears == 1
\* Distinct payloads the server may serve for one resource.
NumBodies == 2
\* Messages of one type, other than CLEAR_CACHE, handled by the worker in
\* one behaviour.
MaxMessages == 1

\* --------------------------------------------------------------- constants
CACHE_VERSION == "v1"

CACHE_NAMES ==
  [models  |-> "penta-3d-models-" \o CACHE_VERSION,
   static  |-> "penta-static-" \o CACHE_VERSION,
   runtime |-> "penta-runtime-" \o CACHE_VERSION]

\* Object.values(CACHE_NAMES)
CurrentNames == {CACHE_NAMES.models, CACHE_NAMES.static, CACHE_NAMES.runtime}

\* Names left in storage by an earlier version of the worker or by another
\* script of the origin.
OldNames == {"penta-3d-models-v0", "penta-static-v0", "foreign-cache"}

\* The partition names CacheStorage may hold.
CacheNames == CurrentNames \cup OldNames

\* Generations of a name's Cache object: one more per deletion.
Gens == 0..MaxClears

\* ------------------------------------------------------------------- URLs
\* A URL is its origin and its pathname, the pathname a sequence of
\* characters (file names are shortened to one letter).
SelfOrigin == "https://penta.example"
OtherOrigin == "https://cdn.example"

Url(origin, pathname) == [origin |-> origin, pathname |-> pathname]

ModelUrl == Url(SelfOrigin, <<"/", "l", ".", "g", "l", "b">>)
StyleUrl == Url(SelfOrigin, <<"/", "s", ".", "c", "s", "s">>)
PageUrl  == Url(SelfOrigin, <<"/", "i", ".", "h", "t", "m", "l">>)
CrossUrl == Url(OtherOrigin, <<"/", "m", ".", "g", "l", "b">>)

\* The models to precache: logo_3d_just_icon, corparete_event, decoration,
\* staff, technical and transfer (x).
MODEL_ASSETS ==
  <<ModelUrl,
    Url(SelfOrigin, <<"/", "c", ".", "g", "l", "b">>),
    Url(SelfOrigin, <<"/", "d", ".", "g", "l", "b">>),
    Url(SelfOrigin, <<"/", "s", ".", "g", "l", "b">>),
    Url(SelfOrigin, <<"/", "t", ".", "g", "l", "b">>),
    Url(SelfOrigin, <<"/", "x", ".", "g", "l", "b">>)>>

\* The static assets to cache: main.css, components.css, main.js, logo.png.
STATIC_ASSETS ==
  <<Url(SelfOrigin, <<"/", "m", ".", "c", "s", "s">>),
    Url(SelfOrigin, <<"/", "c", ".", "c", "s", "s">>),
    Url(SelfOrigin, <<"/", "m", ".", "j", "s">>),
    Url(SelfOrigin, <<"/", "l", ".", "p", "n", "g">>)>>

\* The elements of a sequence.
Range(seq) == {seq[i] : i \in 1..Len(seq)}

\* A model of the site that the manifest does not list.
ExtraModelUrl == Url(SelfOrigin, <<"/", "o", ".", "g", "l", "b">>)

\* The requests the pages make.
Urls == {ModelUrl, StyleUrl, PageUrl, CrossUrl}

\* String.prototype.endsWith on a pathname
EndsWith(path, suffix) ==
  /\ Len(path) >= Len(suffix)
  /\ SubSeq(path, Len(path) - Len(suffix) + 1, Len(path)) = suffix

\* /\.(css|js|png|jpg|jpeg|svg|woff2?)$/
StaticExtensions ==
  {<<"c", "s", "s">>, <<"j", "s">>, <<"p", "n", "g">>, <<"j", "p", "g">>,
   <<"j", "p", "e", "g">>, <<"s", "v", "g">>, <<"w", "o", "f", "f">>,
   <<"w", "o", "f", "f", "2">>}

\* (mutant) the pattern without its end anchor: the suffix may stand
\* anywhere in the pathname.
MatchesStaticUnanchored(path) ==
  \E ext \in StaticExtensions : \E i \in 1..Len(path) :
    /\ i + Len(ext) <= Len(path)
    /\ SubSeq(path, i, i + Len(ext)) = <<".">> \o ext

MatchesStatic(path) ==
  \E ext \in StaticExtensions : EndsWith(path, <<".">> \o ext)

\* -------------------------------------------------------------- responses
\* A response is its status and its payload; None is JavaScript's undefined.
StatusOk == 200
StatusServerError == 500

Response(status, body) == [status |-> status, body |-> body]
None == Response(0, 0)

\* Response.ok
Ok(r) == r.status >= 200 /\ r.status <= 299

Bodies == 1..NumBodies

\* What a fetch may resolve with: a successful response with any payload
\* the server holds, or an error response.
NetworkResponses ==
  {Response(StatusOk, b) : b \in Bodies} \cup {Response(StatusServerError, 0)}

\* ------------------------------------------------------------------ state
VARIABLES
  present,   \* present[name]: CacheStorage has a Cache object under name
  gen,       \* gen[name]: how many times name has been deleted
  entries,   \* the stored entries <<name, g, url, response>> of the Cache objects
  tasks,     \* the bag of the fetch events' handlers
  clear,     \* the CLEAR_CACHE handler
  install,   \* the install event's handler
  activate,  \* the activate event's handler
  status,    \* the CACHE_STATUS handler
  preload,   \* the PRELOAD_MODELS handler
  unknown,   \* the messages of any other type
  page       \* the page's ModelPreloader

\* The handlers beside those of the fetch events and of CLEAR_CACHE.
background == <<install, activate, status, preload, unknown, page>>

vars == <<present, gen, entries, tasks, clear, background>>

\* The response stored for url in Cache object c by the entries e, None
\* when there is none.
Stored(e, c, url) ==
  LET hits == {x \in e : x[1] = c[1] /\ x[2] = c[2] /\ x[3] = url} IN
    IF hits = {} THEN None ELSE (CHOOSE x \in hits : TRUE)[4]

\* cache.match(request) on the Cache object c
CacheMatch(c, url) == Stored(entries, c, url)

\* The entry of the partition called name, as a caches.open(name) would
\* now find it.
PartitionEntry(name, url) ==
  IF present[name] THEN Stored(entries, <<name, gen[name]>>, url) ELSE None

\* The handlers, and the bag with handler t become t2.
Running == BagToSet(tasks)
Become(t, t2) == (tasks (-) SetToBag({t})) (+) SetToBag({t2})

\* No Cache object.
NoCache == <<"", 0>>

\* The handlers before their events.
\* hung is the network's: the fetch of install that never settles, that of
\* model hung or, past the last model, one of addAll; 0 when there is none.
\* fetched is history: the models whose fetch resolved with an ok response.
InstallIdle ==
  [pc |-> "idle", i |-> 0, cache |-> NoCache, response |-> None,
   skipWaiting |-> FALSE, failures |-> 0, hung |-> 0, fetched |-> {}]
ActivateIdle == [pc |-> "idle", names |-> {}]
\* The CACHE_STATUS reply not yet made.
NoReply ==
  [version |-> "", cachedModels |-> <<>>, totalModels |-> 0, cachedCount |-> 0]
StatusIdle ==
  [pc |-> "idle", cache |-> NoCache, reply |-> NoReply, replies |-> 0,
   count |-> 0, afterInstall |-> FALSE, clearAt |-> "idle"]
PreloadIdle ==
  [pc |-> "idle", i |-> 0, cache |-> NoCache, response |-> None,
   replies |-> 0, count |-> 0, before |-> <<None, None, None, None, None, None>>,
   attempted |-> {}, settled |-> {}, fetched |-> {}]
UnknownIdle == [count |-> 0, replies |-> 0]
\* The page's preloader: jobs[<<"burst", m>>] is the callback preloadAllModels
\* maps over model m, jobs[<<"pass", m>>] the preloadWithFetch that
\* ensureAllCached starts for it; pass is ensureAllCached itself.
PageJobs == {"burst", "pass"} \X (1..Len(MODEL_ASSETS))
\* No job of the page: the request of a fetch event comes from elsewhere.
NoJob == <<"", 0>>
\* stored is history: the models a cache.put of the page has settled for.
PageIdle ==
  [pc |-> "idle", cache |-> NoCache,
   jobs |-> [j \in PageJobs |-> "idle"],
   pass |-> [pc |-> "off", i |-> 0, cache |-> NoCache],
   stored |-> {}]

\* The worker and the page at rest, no event handled yet.
Quiet ==
  /\ tasks = EmptyBag
  /\ clear = [pc |-> "idle", names |-> {}, count |-> 0]
  /\ install = InstallIdle
  /\ activate = ActivateIdle
  /\ status = StatusIdle
  /\ preload = PreloadIdle
  /\ unknown = UnknownIdle
  /\ page = PageIdle

Init ==
  /\ present = [n \in CacheNames |-> FALSE]
  /\ gen = [n \in CacheNames |-> 0]
  /\ entries = {}
  /\ Quiet

\* ------------------------------------------------------- strategy selector
\* (mutant) the listener without its origin test.
RouteAnyOrigin(url) ==
  IF EndsWith(url.pathname, <<".", "g", "l", "b">>)
     \/ EndsWith(url.pathname, <<".", "g", "l", "t", "f">>)
    THEN [strategy |-> "cacheFirst", cacheName |-> CACHE_NAMES.models]
  ELSE IF MatchesStatic(url.pathname)
    THEN [strategy |-> "staleWhileRevalidate", cacheName |-> CACHE_NAMES.static]
  ELSE IF EndsWith(url.pathname, <<".", "h", "t", "m", "l">>)
          \/ url.pathname = <<"/">>
    THEN [strategy |-> "networkFirst", cacheName |-> CACHE_NAMES.runtime]
  ELSE [strategy |-> "none", cacheName |-> ""]

\* The fetch listener's routing: the strategy and the partition it is given,
\* or "none" when the request is not intercepted.
Route(url) ==
  IF url.origin # SelfOrigin
    THEN [strategy |-> "none", cacheName |-> ""]
  ELSE IF EndsWith(url.pathname, <<".", "g", "l", "b">>)
          \/ EndsWith(url.pathname, <<".", "g", "l", "t", "f">>)
    THEN [strategy |-> "cacheFirst", cacheName |-> CACHE_NAMES.models]
  ELSE IF MatchesStatic(url.pathname)
    THEN [strategy |-> "staleWhileRevalidate", cacheName |-> CACHE_NAMES.static]
  ELSE IF EndsWith(url.pathname, <<".", "h", "t", "m", "l">>)
          \/ url.pathname = <<"/">>
    THEN [strategy |-> "networkFirst", cacheName |-> CACHE_NAMES.runtime]
  ELSE [strategy |-> "none", cacheName |-> ""]

\* A handler that has just received its event.  The fields from fetches on
\* are history, read only by the properties:
\*   fetches        the network fetches the handler has started
\*   hadEntry       the partition held an entry for the request when the
\*                  handler opened it
\*   follows        (cacheFirst) an earlier handler had then already returned
\*                  an ok network response for the same request
\*   entryAtReturn  the partition held an entry for the request when
\*                  cacheFirst returned the network response
\*   stored         when the handler's put settled, the partition's entry
\*                  was the response put
NewTask(strategy, url) ==
  [strategy |-> strategy, request |-> url, pc |-> "open", cache |-> <<"", 0>>,
   cachedResponse |-> None, networkResponse |-> None, result |-> None,
   fetching |-> FALSE, put |-> None,
   fetches |-> 0, hadEntry |-> FALSE, follows |-> FALSE,
   entryAtReturn |-> FALSE, stored |-> FALSE, client |-> NoJob]

\* The handler t holds the Cache object that its partition's name maps to.
Attached(t) == present[t.cache[1]] /\ t.cache[2] = gen[t.cache[1]]

\* caches.open(cacheName): the handler with the partition's Cache object.
CachesOpen(t, cacheName) ==
  [t EXCEPT !.cache = <<cacheName, gen[cacheName]>>,
            !.hadEntry = PartitionEntry(cacheName, t.request) # None,
            !.follows = \E e \in Running :
                           /\ t.strategy = "cacheFirst"
                           /\ e.request = t.request
                           /\ e.pc = "returned"
                           /\ Ok(e.networkResponse)]

\* The handler with its fetch(request) started.
StartFetch(t) == [t EXCEPT !.fetching = TRUE, !.fetches = @ + 1]

\* What the handler does once caches.open has settled: cacheFirst and
\* staleWhileRevalidate look the request up, networkFirst fetches it.
AfterOpen(t) ==
  IF t.strategy = "networkFirst"
    THEN [StartFetch(t) EXCEPT !.pc = "fetch"]
    ELSE [t EXCEPT !.pc = "match"]

\* The runtime hands the worker a fetch event for url; the strategy the
\* listener picks opens its partition.  A request the listener does not
\* answer goes to the network untouched.
FetchEvent(url) ==
  /\ BagCardinality(tasks) < MaxTasks
  /\ LET r == Route(url) IN
       IF r.strategy = "none"
         THEN /\ tasks' = tasks (+) SetToBag({[NewTask("none", url) EXCEPT !.pc = "passthrough"]})
              /\ UNCHANGED present
         ELSE /\ tasks' = tasks (+) SetToBag({AfterOpen(CachesOpen(NewTask(r.strategy, url), r.cacheName))})
              /\ present' = [present EXCEPT ![r.cacheName] = TRUE]
  /\ UNCHANGED <<background, gen, entries, clear>>

\* ------------------------------------------------------- cache primitives
\* (mutant) put adds an entry and leaves what was stored for url.
CachePutAppend(c, url, response) ==
  entries \cup {<<c[1], c[2], url, response>>}

\* The entries after cache.put(url, response) settles on Cache object c:
\* the response replaces what was stored for url.
CachePut(c, url, response) ==
  {x \in entries : ~(x[1] = c[1] /\ x[2] = c[2] /\ x[3] = url)}
    \cup {<<c[1], c[2], url, response>>}

\* The cache.put a strategy started without awaiting it settles.
PutSettle(t) ==
  /\ t.put # None
  /\ LET after == CachePut(t.cache, t.request, t.put)
         n == t.cache[1]
     IN
       /\ entries' = after
       /\ tasks' = Become(t,
            [t EXCEPT !.put = None,
                      !.stored = present[n] /\ Stored(after, <<n, gen[n]>>, t.request) = t.put])
  /\ UNCHANGED <<background, present, gen, clear>>

\* (mutant) the response is put whatever its status.
WithNetworkResponseUnchecked(t, r) ==
  [t EXCEPT !.networkResponse = r, !.fetching = FALSE, !.put = r]

\* The handler with the network's response r: an ok response is put in the
\* cache, the put not awaited.
WithNetworkResponse(t, r) ==
  [t EXCEPT !.networkResponse = r,
            !.fetching = FALSE,
            !.put = IF Ok(r) THEN r ELSE None]

\* ------------------------------------------------------------- cacheFirst
\* (mutant) the cached response is not returned: the request is fetched
\* whatever the cache holds.
CacheFirstMatchAlwaysFetch(t) ==
  /\ t.strategy = "cacheFirst"
  /\ t.pc = "match"
  /\ tasks' = Become(t, [StartFetch(t) EXCEPT !.pc = "fetch"])
  /\ UNCHANGED <<background, present, gen, entries, clear>>

\* (mutant) a hit is returned and revalidated in the background, as a
\* stale-while-revalidate strategy would.
CacheFirstMatchRevalidate(t) ==
  /\ t.strategy = "cacheFirst"
  /\ t.pc = "match"
  /\ LET cached == CacheMatch(t.cache, t.request) IN
       tasks' = Become(t,
         IF cached # None
           THEN [StartFetch(t) EXCEPT !.cachedResponse = cached,
                                      !.result = cached,
                                      !.pc = "returned"]
           ELSE [StartFetch(t) EXCEPT !.pc = "fetch"])
  /\ UNCHANGED <<background, present, gen, entries, clear>>

\* cache.match settles: a hit is returned, a miss starts the fetch.
CacheFirstMatch(t) ==
  /\ t.strategy = "cacheFirst"
  /\ t.pc = "match"
  /\ LET cached == CacheMatch(t.cache, t.request) IN
       tasks' = Become(t,
         IF cached # None
           THEN [t EXCEPT !.cachedResponse = cached,
                          !.result = cached,
                          !.pc = "returned"]
           ELSE [StartFetch(t) EXCEPT !.pc = "fetch"])
  /\ UNCHANGED <<background, present, gen, entries, clear>>

\* (mutant) the response is returned without being put in the cache.
CacheFirstResolveNoPut(t, r) ==
  /\ t.strategy = "cacheFirst"
  /\ t.pc = "fetch"
  /\ tasks' = Become(t,
       [t EXCEPT !.networkResponse = r,
                 !.fetching = FALSE,
                 !.result = r,
                 !.pc = "returned",
                 !.entryAtReturn = PartitionEntry(t.cache[1], t.request) # None])
  /\ UNCHANGED <<background, present, gen, entries, clear>>

\* fetch resolves: an ok response is put, then the response is returned.
CacheFirstResolve(t, r) ==
  /\ t.strategy = "cacheFirst"
  /\ t.pc = "fetch"
  /\ tasks' = Become(t,
       [WithNetworkResponse(t, r) EXCEPT
          !.result = r,
          !.pc = "returned",
          !.entryAtReturn = PartitionEntry(t.cache[1], t.request) # None])
  /\ UNCHANGED <<background, present, gen, entries, clear>>

\* fetch rejects: the rejection leaves cacheFirst.
CacheFirstReject(t) ==
  /\ t.strategy = "cacheFirst"
  /\ t.pc = "fetch"
  /\ tasks' = Become(t, [t EXCEPT !.fetching = FALSE, !.pc = "threw"])
  /\ UNCHANGED <<background, present, gen, entries, clear>>

\* --------------------------------------------------- staleWhileRevalidate
\* (mutant) fetchPromise is returned whatever the cache holds.
StaleMatchAwaitNetwork(t) ==
  /\ t.strategy = "staleWhileRevalidate"
  /\ t.pc = "match"
  /\ LET cached == CacheMatch(t.cache, t.request) IN
       tasks' = Become(t,
         [StartFetch(t) EXCEPT !.cachedResponse = cached, !.pc = "fetch"])
  /\ UNCHANGED <<background, present, gen, entries, clear>>

\* (mutant) the fetch is started only on a miss.
StaleMatchFetchOnMiss(t) ==
  /\ t.strategy = "staleWhileRevalidate"
  /\ t.pc = "match"
  /\ LET cached == CacheMatch(t.cache, t.request) IN
       tasks' = Become(t,
         IF cached # None
           THEN [t EXCEPT !.cachedResponse = cached,
                          !.result = cached,
                          !.pc = "returned"]
           ELSE [StartFetch(t) EXCEPT !.pc = "fetch"])
  /\ UNCHANGED <<background, present, gen, entries, clear>>

\* cache.match settles: the fetch is started, and cachedResponse || fetchPromise
\* is returned: the cached response at once when there is one.
StaleMatch(t) ==
  /\ t.strategy = "staleWhileRevalidate"
  /\ t.pc = "match"
  /\ LET cached == CacheMatch(t.cache, t.request) IN
       tasks' = Become(t,
         [StartFetch(t) EXCEPT
            !.cachedResponse = cached,
            !.result = cached,
            !.pc = IF cached # None THEN "returned" ELSE "fetch"])
  /\ UNCHANGED <<background, present, gen, entries, clear>>

\* (mutant) the response is put only when the caller is waiting for it.
StaleResolveNoRefresh(t, r) ==
  /\ t.strategy = "staleWhileRevalidate"
  /\ t.fetching
  /\ tasks' = Become(t,
       [t EXCEPT !.networkResponse = r,
                 !.fetching = FALSE,
                 !.put = IF Ok(r) /\ t.pc = "fetch" THEN r ELSE None,
                 !.result = IF t.pc = "fetch" THEN r ELSE @,
                 !.pc = "returned"])
  /\ UNCHANGED <<background, present, gen, entries, clear>>

\* The .then handler: an ok response is put; the response is fetchPromise's
\* value, which a caller still waiting receives.
StaleResolve(t, r) ==
  /\ t.strategy = "staleWhileRevalidate"
  /\ t.fetching
  /\ tasks' = Become(t,
       [WithNetworkResponse(t, r) EXCEPT
          !.result = IF t.pc = "fetch" THEN r ELSE @,
          !.pc = "returned"])
  /\ UNCHANGED <<background, present, gen, entries, clear>>

\* The .catch handler: fetchPromise's value is cachedResponse, be it
\* undefined.
StaleReject(t) ==
  /\ t.strategy = "staleWhileRevalidate"
  /\ t.fetching
  /\ tasks' = Become(t,
       [t EXCEPT !.fetching = FALSE,
                 !.result = IF t.pc = "fetch" THEN t.cachedResponse ELSE @,
                 !.pc = "returned"])
  /\ UNCHANGED <<background, present, gen, entries, clear>>

\* ----------------------------------------------------------- networkFirst
\* (mutant) the cached response is preferred to the live one.
NetworkFirstResolveStale(t, r) ==
  /\ t.strategy = "networkFirst"
  /\ t.pc = "fetch"
  /\ LET cached == CacheMatch(t.cache, t.request) IN
       tasks' = Become(t,
         [WithNetworkResponse(t, r) EXCEPT
            !.result = IF cached # None THEN cached ELSE r,
            !.pc = "returned"])
  /\ UNCHANGED <<background, present, gen, entries, clear>>

\* fetch resolves: an ok response is put, then the response is returned.
NetworkFirstResolve(t, r) ==
  /\ t.strategy = "networkFirst"
  /\ t.pc = "fetch"
  /\ tasks' = Become(t,
       [WithNetworkResponse(t, r) EXCEPT !.result = r, !.pc = "returned"])
  /\ UNCHANGED <<background, present, gen, entries, clear>>

\* (mutant) a rejected fetch leaves networkFirst at once, the catch block
\* never looking the request up.
NetworkFirstRejectRethrow(t) ==
  /\ t.strategy = "networkFirst"
  /\ t.pc = "fetch"
  /\ tasks' = Become(t, [t EXCEPT !.fetching = FALSE, !.pc = "threw"])
  /\ UNCHANGED <<background, present, gen, entries, clear>>

\* fetch rejects: the catch block looks the request up.
NetworkFirstReject(t) ==
  /\ t.strategy = "networkFirst"
  /\ t.pc = "fetch"
  /\ tasks' = Become(t, [t EXCEPT !.fetching = FALSE, !.pc = "match"])
  /\ UNCHANGED <<background, present, gen, entries, clear>>

\* (mutant) the catch block rethrows without looking the request up.
NetworkFirstMatchNoFallback(t) ==
  /\ t.strategy = "networkFirst"
  /\ t.pc = "match"
  /\ tasks' = Become(t, [t EXCEPT !.pc = "threw"])
  /\ UNCHANGED <<background, present, gen, entries, clear>>

\* The catch block's cache.match settles: a hit is returned, a miss
\* rethrows the error.
NetworkFirstMatch(t) ==
  /\ t.strategy = "networkFirst"
  /\ t.pc = "match"
  /\ LET cached == CacheMatch(t.cache, t.request) IN
       tasks' = Become(t,
         IF cached # None
           THEN [t EXCEPT !.cachedResponse = cached,
                          !.result = cached,
                          !.pc = "returned"]
           ELSE [t EXCEPT !.pc = "threw"])
  /\ UNCHANGED <<background, present, gen, entries, clear>>

\* ------------------------------------------------- CLEAR_CACHE (message)
\* A page posts {type: 'CLEAR_CACHE'}: the handler calls clearAllCaches.
ClearMessage ==
  /\ clear.pc \in {"idle", "replied"}
  /\ clear.count < MaxClears
  /\ clear' = [clear EXCEPT !.pc = "keys", !.count = @ + 1]
  /\ UNCHANGED <<background, present, gen, entries, tasks>>

\* caches.keys() settles with the names now in storage.
ClearKeys ==
  /\ clear.pc = "keys"
  /\ clear' = [clear EXCEPT !.pc = "deleting",
                            !.names = {n \in CacheNames : present[n]}]
  /\ UNCHANGED <<background, present, gen, entries, tasks>>

\* (mutant) only the names of earlier versions are deleted.
ClearDeleteOldOnly(name) ==
  /\ clear.pc = "deleting"
  /\ name \in clear.names
  /\ clear' = [clear EXCEPT !.names = @ \ {name}]
  /\ present' = [present EXCEPT ![name] = IF name \in CurrentNames THEN @ ELSE FALSE]
  /\ gen' = [gen EXCEPT ![name] = IF present[name] /\ name \notin CurrentNames THEN @ + 1 ELSE @]
  /\ UNCHANGED <<background, entries, tasks>>

\* One caches.delete(name) of the Promise.all settles: the name is unlinked
\* and the Cache objects held under it are detached.
ClearDelete(name) ==
  /\ clear.pc = "deleting"
  /\ name \in clear.names
  /\ clear' = [clear EXCEPT !.names = @ \ {name}]
  /\ present' = [present EXCEPT ![name] = FALSE]
  /\ gen' = [gen EXCEPT ![name] = IF present[name] THEN @ + 1 ELSE @]
  /\ UNCHANGED <<background, entries, tasks>>

\* (mutant) the handler posts {success: true} without awaiting Promise.all.
ClearReplyEarly ==
  /\ clear.pc = "deleting"
  /\ clear' = [clear EXCEPT !.pc = "replied"]
  /\ UNCHANGED <<background, present, gen, entries, tasks>>

\* Promise.all has settled: the handler posts {success: true}.
ClearReply ==
  /\ clear.pc = "deleting"
  /\ clear.names = {}
  /\ clear' = [clear EXCEPT !.pc = "replied"]
  /\ UNCHANGED <<background, present, gen, entries, tasks>>

\* ---------------------------------------------------------- specification
Next ==
  \/ \E url \in Urls : FetchEvent(url)
  \/ \E t \in Running : CacheFirstMatch(t)
  \/ \E t \in Running, r \in NetworkResponses : CacheFirstResolve(t, r)
  \/ \E t \in Running : CacheFirstReject(t)
  \/ \E t \in Running : StaleMatch(t)
  \/ \E t \in Running, r \in NetworkResponses : StaleResolve(t, r)
  \/ \E t \in Running : StaleReject(t)
  \/ \E t \in Running, r \in NetworkResponses : NetworkFirstResolve(t, r)
  \/ \E t \in Running : NetworkFirstReject(t)
  \/ \E t \in Running : NetworkFirstMatch(t)
  \/ \E t \in Running : PutSettle(t)
  \/ ClearMessage
  \/ ClearKeys
  \/ \E name \in CacheNames : ClearDelete(name)
  \/ ClearReply

Spec == Init /\ [][Next]_vars

\* The requests of the static class.
StaticUrls == {u \in Urls : Route(u).strategy = "staleWhileRevalidate"}

\* The worker serving requests of the static class only: the handlers of
\* the other classes work on other partitions.
StaleNext ==
  \/ \E url \in StaticUrls : FetchEvent(url)
  \/ \E t \in Running : StaleMatch(t)
  \/ \E t \in Running, r \in NetworkResponses : StaleResolve(t, r)
  \/ \E t \in Running : StaleReject(t)
  \/ \E t \in Running : PutSettle(t)
  \/ ClearMessage
  \/ ClearKeys
  \/ \E name \in CacheNames : ClearDelete(name)
  \/ ClearReply

\* A cache.put that was started settles: the browser carries it out whether
\* or not anything awaits it.
FairStaleSpec ==
  Init /\ [][StaleNext]_vars /\ WF_vars(\E t \in Running : PutSettle(t))

\* ------------------------------------------------- the selector's inputs
\* The pathnames the selector is tried on: the root, and a file name
\* followed by up to two suffixes, among them every suffix the listener
\* tests for, its neighbours (an upper-case one, one without its dot, a
\* longer and a shorter one) and a directory.
Stem == <<"/", "a">>

Suffixes ==
  {<<>>,
   <<".", "g", "l", "b">>, <<".", "g", "l", "t", "f">>,
   <<".", "c", "s", "s">>, <<".", "j", "s">>, <<".", "p", "n", "g">>,
   <<".", "j", "p", "g">>, <<".", "j", "p", "e", "g">>,
   <<".", "s", "v", "g">>, <<".", "w", "o", "f", "f">>,
   <<".", "w", "o", "f", "f", "2">>, <<".", "h", "t", "m", "l">>,
   <<".", "G", "L", "B">>, <<"g", "l", "b">>, <<".", "h", "t", "m">>,
   <<".", "t", "x", "t">>, <<"/">>}

InnerSuffixes ==
  {<<>>, <<".", "g", "l", "b">>, <<".", "c", "s", "s">>}

SelectorPaths ==
  {<<"/">>} \cup {Stem \o s1 \o s2 : s1 \in InnerSuffixes, s2 \in Suffixes}

SelectorUrls ==
  {Url(o, p) : o \in {SelfOrigin, OtherOrigin}, p \in SelectorPaths}

\* The fetch listener alone, on every such request from either origin.
SelectorNext == \E url \in SelectorUrls : FetchEvent(url)

SelectorSpec == Init /\ [][SelectorNext]_vars

\* -------------------------------------------------------------- lifecycle
\* What a fetch of a manifest asset may resolve with: the file the server
\* holds for it, or an error response.
ManifestResponses == {Response(StatusOk, 1), Response(StatusServerError, 0)}

\* (mutant) skipWaiting() is called first, before anything is fetched.
InstallEventSkipsFirst ==
  /\ install.pc = "idle"
  /\ install' = [install EXCEPT !.pc = "fetch", !.i = 1, !.skipWaiting = TRUE,
                                !.cache = <<CACHE_NAMES.models, gen[CACHE_NAMES.models]>>]
  /\ present' = [present EXCEPT ![CACHE_NAMES.models] = TRUE]
  /\ UNCHANGED <<gen, entries, tasks, clear, activate, status, preload, unknown, page>>

\* The install event: caches.open(CACHE_NAMES.models), then the loop's first
\* fetch.
InstallEvent ==
  /\ install.pc = "idle"
  /\ install' = [install EXCEPT !.pc = "fetch", !.i = 1,
                                !.cache = <<CACHE_NAMES.models, gen[CACHE_NAMES.models]>>]
  /\ present' = [present EXCEPT ![CACHE_NAMES.models] = TRUE]
  /\ UNCHANGED <<gen, entries, tasks, clear, activate, status, preload, unknown, page>>

\* The loop goes on to its next model; after the last one the handler opens
\* the static partition and starts addAll(STATIC_ASSETS).
InstallContinue(h) ==
  IF h.i < Len(MODEL_ASSETS)
    THEN /\ install' = [h EXCEPT !.pc = "fetch", !.i = @ + 1, !.response = None]
         /\ UNCHANGED present
    ELSE /\ install' = [h EXCEPT !.pc = "addAll", !.response = None,
                                       !.cache = <<CACHE_NAMES.static, gen[CACHE_NAMES.static]>>]
         /\ present' = [present EXCEPT ![CACHE_NAMES.static] = TRUE]

\* (mutant) the put of an ok response is not awaited: the loop goes on to
\* its next model at once.
InstallFetchResolveNoAwait(r) ==
  /\ install.pc = "fetch"
  /\ InstallContinue(IF Ok(r) THEN install ELSE [install EXCEPT !.failures = @ + 1])
  /\ UNCHANGED <<gen, entries, tasks, clear, activate, status, preload, unknown, page>>

\* fetch(model) resolves: an ok response is put, any other is passed over.
InstallFetchResolve(r) ==
  /\ install.pc = "fetch"
  /\ install.hung # install.i
  /\ IF Ok(r)
       THEN /\ install' = [install EXCEPT !.pc = "put", !.response = r,
                                          !.fetched = @ \cup {install.i}]
            /\ UNCHANGED present
       ELSE InstallContinue([install EXCEPT !.failures = @ + 1])
  /\ UNCHANGED <<gen, entries, tasks, clear, activate, status, preload, unknown, page>>

\* (mutant) the loop without its try block: a rejected fetch leaves the
\* handler and the installation fails.
InstallFetchRejectAborts ==
  /\ install.pc = "fetch"
  /\ install' = [install EXCEPT !.pc = "failed", !.failures = @ + 1]
  /\ UNCHANGED <<present, gen, entries, tasks, clear, activate, status, preload, unknown, page>>

\* (mutant) the catch block deletes what the partition held for the model.
InstallFetchRejectEvicts ==
  /\ install.pc = "fetch"
  /\ install.hung # install.i
  /\ entries' = {x \in entries : ~(/\ x[1] = install.cache[1]
                                    /\ x[2] = install.cache[2]
                                    /\ x[3] = MODEL_ASSETS[install.i])}
  /\ InstallContinue([install EXCEPT !.failures = @ + 1])
  /\ UNCHANGED <<gen, tasks, clear, activate, status, preload, unknown, page>>

\* (mutant) a timeout wrapped around fetch(model) rejects the fetch that
\* never settles as well.
InstallFetchRejectTimeout ==
  /\ install.pc = "fetch"
  /\ InstallContinue([install EXCEPT !.failures = @ + 1])
  /\ UNCHANGED <<gen, entries, tasks, clear, activate, status, preload, unknown, page>>

\* fetch(model) rejects: the catch block warns and the loop goes on.
InstallFetchReject ==
  /\ install.pc = "fetch"
  /\ install.hung # install.i
  /\ InstallContinue([install EXCEPT !.failures = @ + 1])
  /\ UNCHANGED <<gen, entries, tasks, clear, activate, status, preload, unknown, page>>

\* The awaited modelCache.put(model, response) settles.
InstallPut ==
  /\ install.pc = "put"
  /\ entries' = CachePut(install.cache, MODEL_ASSETS[install.i], install.response)
  /\ InstallContinue(install)
  /\ UNCHANGED <<gen, tasks, clear, activate, status, preload, unknown, page>>

\* The entries after cache.addAll(urls) has stored the response of each url.
CacheAddAll(c, urls, response) ==
  {x \in entries : ~(x[1] = c[1] /\ x[2] = c[2] /\ x[3] \in urls)}
    \cup {<<c[1], c[2], url, response>> : url \in urls}

\* (mutant) a failed installation undoes its own: the models the loop
\* stored are removed.
InstallAddAllRejectRollsBack(failed) ==
  /\ install.pc = "addAll"
  /\ failed # {}
  /\ install' = [install EXCEPT !.pc = "failed"]
  /\ entries' = {x \in entries : x[1] # CACHE_NAMES.models}
  /\ UNCHANGED <<present, gen, tasks, clear, activate, status, preload, unknown, page>>

\* (mutant) addAll stores the assets whose fetch succeeded before rejecting.
InstallAddAllRejectPartial(failed) ==
  /\ install.pc = "addAll"
  /\ failed # {}
  /\ install' = [install EXCEPT !.pc = "failed"]
  /\ entries' = CacheAddAll(install.cache, Range(STATIC_ASSETS) \ failed, Response(StatusOk, 1))
  /\ UNCHANGED <<present, gen, tasks, clear, activate, status, preload, unknown, page>>

\* addAll(STATIC_ASSETS) rejects, the fetch of the assets in failed having
\* failed: nothing is stored, and the rejection leaves the handler, so that
\* the promise given to waitUntil rejects and the installation fails.
InstallAddAllReject(failed) ==
  /\ install.pc = "addAll"
  /\ install.hung <= Len(MODEL_ASSETS)
  /\ failed # {}
  /\ install' = [install EXCEPT !.pc = "failed"]
  /\ UNCHANGED <<present, gen, entries, tasks, clear, activate, status, preload, unknown, page>>

\* addAll(STATIC_ASSETS) resolves, every asset fetched and stored; the
\* handler calls skipWaiting() and the installation succeeds.
InstallAddAllResolve ==
  /\ install.pc = "addAll"
  /\ install.hung <= Len(MODEL_ASSETS)
  /\ entries' = CacheAddAll(install.cache, Range(STATIC_ASSETS), Response(StatusOk, 1))
  /\ install' = [install EXCEPT !.pc = "installed", !.skipWaiting = TRUE]
  /\ UNCHANGED <<present, gen, tasks, clear, activate, status, preload, unknown, page>>

\* The activate event, which the runtime fires once the installation has
\* succeeded and, skipWaiting() called, no longer waits: caches.keys() is
\* started.
ActivateEvent ==
  /\ activate.pc = "idle"
  /\ install.pc = "installed"
  /\ install.skipWaiting
  /\ activate' = [activate EXCEPT !.pc = "keys"]
  /\ UNCHANGED <<present, gen, entries, tasks, clear, install, status, preload, unknown, page>>

\* (mutant) no filter: every name caches.keys() gave is to be deleted.
ActivateKeysUnfiltered ==
  /\ activate.pc = "keys"
  /\ activate' = [activate EXCEPT !.pc = "deleting",
                                  !.names = {n \in CacheNames : present[n]}]
  /\ UNCHANGED <<present, gen, entries, tasks, clear, install, status, preload, unknown, page>>

\* (mutant) the filter keeps the names that are not current instead.
ActivateKeysInverted ==
  /\ activate.pc = "keys"
  /\ activate' = [activate EXCEPT !.pc = "deleting",
                                  !.names = {n \in CacheNames : present[n]} \cap CurrentNames]
  /\ UNCHANGED <<present, gen, entries, tasks, clear, install, status, preload, unknown, page>>

\* caches.keys() settles; the names that are not current are to be deleted.
ActivateKeys ==
  /\ activate.pc = "keys"
  /\ activate' = [activate EXCEPT !.pc = "deleting",
                                  !.names = {n \in CacheNames : present[n]} \ CurrentNames]
  /\ UNCHANGED <<present, gen, entries, tasks, clear, install, status, preload, unknown, page>>

\* One caches.delete(name) of the Promise.all settles.
ActivateDelete(name) ==
  /\ activate.pc = "deleting"
  /\ name \in activate.names
  /\ activate' = [activate EXCEPT !.names = @ \ {name}]
  /\ present' = [present EXCEPT ![name] = FALSE]
  /\ gen' = [gen EXCEPT ![name] = IF present[name] THEN @ + 1 ELSE @]
  /\ UNCHANGED <<entries, tasks, clear, install, status, preload, unknown, page>>

\* (mutant) clients.claim() is called without awaiting Promise.all.
ActivateClaimEarly ==
  /\ activate.pc = "deleting"
  /\ activate' = [activate EXCEPT !.pc = "claim"]
  /\ UNCHANGED <<present, gen, entries, tasks, clear, install, status, preload, unknown, page>>

\* Promise.all has settled: the handler calls clients.claim().
ActivateClaim ==
  /\ activate.pc = "deleting"
  /\ activate.names = {}
  /\ activate' = [activate EXCEPT !.pc = "claim"]
  /\ UNCHANGED <<present, gen, entries, tasks, clear, install, status, preload, unknown, page>>

\* clients.claim() settles: the handler is done.
ActivateDone ==
  /\ activate.pc = "claim"
  /\ activate' = [activate EXCEPT !.pc = "activated"]
  /\ UNCHANGED <<present, gen, entries, tasks, clear, install, status, preload, unknown, page>>

\* The version of the worker that controls the pages: the runtime makes
\* this one the active worker when it fires its activate event.
ActiveVersion == IF activate.pc = "idle" THEN "previous" ELSE CACHE_VERSION

\* ---------------------------------------------------------- CACHE_STATUS
\* The elements of a finite set in a sequence (the order of cache.keys() is
\* not modelled).
RECURSIVE SetToSeq(_)
SetToSeq(S) ==
  IF S = {} THEN <<>>
  ELSE LET x == CHOOSE y \in S : TRUE IN <<x>> \o SetToSeq(S \ {x})

\* cache.keys() on the Cache object c
CacheKeys(c) == {x[3] : x \in {e \in entries : e[1] = c[1] /\ e[2] = c[2]}}

\* What getCacheStatus returns for the keys of the models partition.
StatusReply(modelKeys) ==
  [version |-> CACHE_VERSION,
   cachedModels |-> SetToSeq(modelKeys),
   totalModels |-> Len(MODEL_ASSETS),
   cachedCount |-> Cardinality(modelKeys)]

\* (mutant) getCacheStatus starts preloadModels as well.
StatusMessageStartsPreload ==
  /\ status.pc \in {"idle", "replied"}
  /\ status.count < MaxMessages
  /\ status' = [StatusIdle EXCEPT
                  !.pc = "keys",
                  !.cache = <<CACHE_NAMES.models, gen[CACHE_NAMES.models]>>,
                  !.count = status.count + 1,
                  !.afterInstall = install.pc = "installed",
                  !.clearAt = clear.pc]
  /\ preload' = IF preload.pc = "idle"
                  THEN [PreloadIdle EXCEPT
                          !.pc = "match", !.i = 1,
                          !.cache = <<CACHE_NAMES.models, gen[CACHE_NAMES.models]>>]
                  ELSE preload
  /\ present' = [present EXCEPT ![CACHE_NAMES.models] = TRUE]
  /\ UNCHANGED <<gen, entries, tasks, clear, install, activate, unknown, page>>

\* A CACHE_STATUS message: getCacheStatus opens the models partition.
\* afterInstall and clearAt are history: the installation had succeeded by
\* then, and where the CLEAR_CACHE handler then was.
StatusMessage ==
  /\ status.pc \in {"idle", "replied"}
  /\ status.count < MaxMessages
  /\ status' = [StatusIdle EXCEPT
                  !.pc = "keys",
                  !.cache = <<CACHE_NAMES.models, gen[CACHE_NAMES.models]>>,
                  !.count = status.count + 1,
                  !.afterInstall = install.pc = "installed",
                  !.clearAt = clear.pc]
  /\ present' = [present EXCEPT ![CACHE_NAMES.models] = TRUE]
  /\ UNCHANGED <<gen, entries, tasks, clear, install, activate, preload, unknown, page>>

\* modelCache.keys() settles; getCacheStatus returns and the handler posts
\* the status on the message's port.
StatusKeys ==
  /\ status.pc = "keys"
  /\ status' = [status EXCEPT !.pc = "replied",
                              !.reply = StatusReply(CacheKeys(status.cache)),
                              !.replies = @ + 1]
  /\ UNCHANGED <<present, gen, entries, tasks, clear, install, activate, preload, unknown, page>>

\* ---------------------------------------------- install, activate, status
\* A new version of the worker meets the storage an earlier one left.
LifecycleInit ==
  /\ present \in [CacheNames -> BOOLEAN]
  /\ \A n \in CurrentNames : ~present[n]
  /\ gen = [n \in CacheNames |-> 0]
  /\ entries = {}
  /\ Quiet

LifecycleNext ==
  \/ InstallEvent
  \/ \E r \in ManifestResponses : InstallFetchResolve(r)
  \/ InstallFetchReject
  \/ InstallPut
  \/ \E failed \in SUBSET Range(STATIC_ASSETS) : InstallAddAllReject(failed)
  \/ InstallAddAllResolve
  \/ ActivateEvent
  \/ ActivateKeys
  \/ \E name \in CacheNames : ActivateDelete(name)
  \/ ActivateClaim
  \/ ActivateDone
  \/ StatusMessage
  \/ StatusKeys

LifecycleSpec == LifecycleInit /\ [][LifecycleNext]_vars

\* -------------------------------------------------------- PRELOAD_MODELS
\* A PRELOAD_MODELS message: preloadModels opens the models partition and
\* looks its first model up.  The fields before, attempted, settled and
\* fetched are history: what the partition then held for each model, the
\* models a fetch was started for, those whose fetch and store have settled,
\* and those whose fetch resolved with an ok response.
PreloadMessage ==
  /\ preload.pc \in {"idle", "replied"}
  /\ preload.count < MaxMessages
  /\ preload' = [PreloadIdle EXCEPT
                   !.pc = "match", !.i = 1,
                   !.cache = <<CACHE_NAMES.models, gen[CACHE_NAMES.models]>>,
                   !.count = preload.count + 1,
                   !.before = [i \in 1..Len(MODEL_ASSETS) |->
                                 PartitionEntry(CACHE_NAMES.models, MODEL_ASSETS[i])]]
  /\ present' = [present EXCEPT ![CACHE_NAMES.models] = TRUE]
  /\ UNCHANGED <<gen, entries, tasks, clear, install, activate, status, unknown, page>>

\* The loop goes on to its next model; after the last one preloadModels
\* returns and the handler posts {success: true}.
PreloadContinue ==
  LET done == IF preload.pc \in {"fetch", "put"}
                THEN preload.settled \cup {preload.i} ELSE preload.settled
  IN IF preload.i < Len(MODEL_ASSETS)
       THEN preload' = [preload EXCEPT !.pc = "match", !.i = @ + 1,
                                       !.response = None, !.settled = done]
       ELSE preload' = [preload EXCEPT !.pc = "replied", !.response = None,
                                       !.replies = @ + 1, !.settled = done]

\* (mutant) a model found in the cache ends the loop: preloadModels
\* returns and the handler replies.
PreloadMatchReturnsOnHit ==
  /\ preload.pc = "match"
  /\ IF CacheMatch(preload.cache, MODEL_ASSETS[preload.i]) # None
       THEN preload' = [preload EXCEPT !.pc = "replied", !.replies = @ + 1]
       ELSE preload' = [preload EXCEPT !.pc = "fetch",
                                       !.attempted = @ \cup {preload.i}]
  /\ UNCHANGED <<present, gen, entries, tasks, clear, install, activate, status, unknown, page>>

\* cache.match(model) settles: a model in the cache is passed over, any
\* other is fetched.
PreloadMatch ==
  /\ preload.pc = "match"
  /\ IF CacheMatch(preload.cache, MODEL_ASSETS[preload.i]) # None
       THEN PreloadContinue
       ELSE preload' = [preload EXCEPT !.pc = "fetch",
                                       !.attempted = @ \cup {preload.i}]
  /\ UNCHANGED <<present, gen, entries, tasks, clear, install, activate, status, unknown, page>>

\* (mutant) the response is put whatever its status.
PreloadFetchResolveUnchecked(r) ==
  /\ preload.pc = "fetch"
  /\ preload' = [preload EXCEPT !.pc = "put", !.response = r]
  /\ UNCHANGED <<present, gen, entries, tasks, clear, install, activate, status, unknown, page>>

\* fetch(model) resolves: an ok response is put, any other is passed over.
PreloadFetchResolve(r) ==
  /\ preload.pc = "fetch"
  /\ IF Ok(r)
       THEN preload' = [preload EXCEPT !.pc = "put", !.response = r,
                                       !.fetched = @ \cup {preload.i}]
       ELSE PreloadContinue
  /\ UNCHANGED <<present, gen, entries, tasks, clear, install, activate, status, unknown, page>>

\* (mutant) the loop without its try block: a rejected fetch makes
\* preloadModels reject.
PreloadFetchRejectAborts ==
  /\ preload.pc = "fetch"
  /\ preload' = [preload EXCEPT !.pc = "rejected"]
  /\ UNCHANGED <<present, gen, entries, tasks, clear, install, activate, status, unknown, page>>

\* fetch(model) rejects: the catch block warns and the loop goes on.
PreloadFetchReject ==
  /\ preload.pc = "fetch"
  /\ PreloadContinue
  /\ UNCHANGED <<present, gen, entries, tasks, clear, install, activate, status, unknown, page>>

\* (mutant) a put that is not idempotent: on a key that another writer has
\* stored meanwhile it removes the entry.
PreloadPutExclusive ==
  /\ preload.pc = "put"
  /\ entries' = IF CacheMatch(preload.cache, MODEL_ASSETS[preload.i]) # None
                  THEN {x \in entries : ~(/\ x[1] = preload.cache[1]
                                          /\ x[2] = preload.cache[2]
                                          /\ x[3] = MODEL_ASSETS[preload.i])}
                  ELSE CachePut(preload.cache, MODEL_ASSETS[preload.i], preload.response)
  /\ PreloadContinue
  /\ UNCHANGED <<present, gen, tasks, clear, install, activate, status, unknown, page>>

\* The awaited cache.put(model, response) settles.
PreloadPut ==
  /\ preload.pc = "put"
  /\ entries' = CachePut(preload.cache, MODEL_ASSETS[preload.i], preload.response)
  /\ PreloadContinue
  /\ UNCHANGED <<present, gen, tasks, clear, install, activate, status, unknown, page>>

\* ------------------------------------------------- messages of other types
\* (mutant) the listener's last branch without its test: a message of any
\* other type starts preloadModels.
UnknownMessagePreloads ==
  /\ unknown.count < MaxMessages
  /\ unknown' = [unknown EXCEPT !.count = @ + 1]
  /\ preload' = [PreloadIdle EXCEPT
                   !.pc = "match", !.i = 1,
                   !.cache = <<CACHE_NAMES.models, gen[CACHE_NAMES.models]>>]
  /\ present' = [present EXCEPT ![CACHE_NAMES.models] = TRUE]
  /\ UNCHANGED <<gen, entries, tasks, clear, install, activate, status, page>>

\* A message whose type is none of the three: no branch of the listener is
\* taken.
UnknownMessage ==
  /\ unknown.count < MaxMessages
  /\ unknown' = [unknown EXCEPT !.count = @ + 1]
  /\ UNCHANGED <<present, gen, entries, tasks, clear, install, activate, status, preload, page>>

\* ------------------------------------------- failing cache operations
\* The promises of the Cache API may reject (a storage error, the quota).
\* modelCache.keys() rejects: getCacheStatus rejects, and the promise the
\* handler chained its then on has no rejection handler.
StatusKeysReject ==
  /\ status.pc = "keys"
  /\ status' = [status EXCEPT !.pc = "rejected"]
  /\ UNCHANGED <<present, gen, entries, tasks, clear, install, activate, preload, unknown, page>>

\* caches.keys() rejects: clearAllCaches rejects, likewise.
ClearKeysReject ==
  /\ clear.pc = "keys"
  /\ clear' = [clear EXCEPT !.pc = "rejected"]
  /\ UNCHANGED <<background, present, gen, entries, tasks>>

\* cache.match(model) rejects outside the try block: preloadModels rejects,
\* likewise.
PreloadMatchReject ==
  /\ preload.pc = "match"
  /\ preload' = [preload EXCEPT !.pc = "rejected"]
  /\ UNCHANGED <<present, gen, entries, tasks, clear, install, activate, status, unknown, page>>

\* cache.put(model, response) rejects inside the try block: the catch block
\* warns and the loop goes on.
PreloadPutReject ==
  /\ preload.pc = "put"
  /\ PreloadContinue
  /\ UNCHANGED <<present, gen, entries, tasks, clear, install, activate, status, unknown, page>>

\* The control channel, the cache operations it awaits settling either way.
MessageNext ==
  \/ StatusMessage
  \/ StatusKeys
  \/ StatusKeysReject
  \/ ClearMessage
  \/ ClearKeys
  \/ ClearKeysReject
  \/ \E name \in CacheNames : ClearDelete(name)
  \/ ClearReply
  \/ PreloadMessage
  \/ PreloadMatch
  \/ PreloadMatchReject
  \/ \E r \in ManifestResponses : PreloadFetchResolve(r)
  \/ PreloadFetchReject
  \/ PreloadPut
  \/ PreloadPutReject
  \/ UnknownMessage

MessageSpec == Init /\ [][MessageNext]_vars

\* ------------------------------------------------- the page's preloader
\* ModelPreloader.models: the manifest's models in the page's order.
PageModels ==
  <<MODEL_ASSETS[1], MODEL_ASSETS[4], MODEL_ASSETS[2], MODEL_ASSETS[5],
    MODEL_ASSETS[6], MODEL_ASSETS[3]>>

\* (mutant) the page opens the static partition.
PageCacheNameStatic == "penta-static-v1"

\* (mutant) the page is left with the name of the version before.
PageCacheNameOld == "penta-3d-models-v0"

\* The name the page opens, written out in its source.
PageCacheName == "penta-3d-models-v1"

\* (mutant) preloadAllModels awaits each model in turn: only the first
\* lookup is started.
PageInitSequential(idle) ==
  /\ page.pc = "idle"
  /\ page' = [page EXCEPT
                !.pc = "burst",
                !.cache = <<"penta-3d-models-v1", gen["penta-3d-models-v1"]>>,
                !.jobs = [j \in PageJobs |-> IF j = <<"burst", 1>> THEN "match" ELSE "idle"],
                !.pass.pc = IF idle THEN "scheduled" ELSE "off"]
  /\ present' = [present EXCEPT !["penta-3d-models-v1"] = TRUE]
  /\ UNCHANGED <<gen, entries, tasks, clear, install, activate, status, preload, unknown>>

\* ModelPreloader.init(): preloadAllModels opens the partition and starts a
\* lookup for every model at once; ensureAllCached is left to an idle
\* callback where the browser has requestIdleCallback.
PageInit(idle) ==
  /\ page.pc = "idle"
  /\ page' = [page EXCEPT
                !.pc = "burst",
                !.cache = <<PageCacheName, gen[PageCacheName]>>,
                !.jobs = [j \in PageJobs |-> IF j[1] = "burst" THEN "match" ELSE "idle"],
                !.pass.pc = IF idle THEN "scheduled" ELSE "off"]
  /\ present' = [present EXCEPT ![PageCacheName] = TRUE]
  /\ UNCHANGED <<gen, entries, tasks, clear, install, activate, status, preload, unknown>>

\* The Cache object a job was given.
JobCache(j) == IF j[1] = "burst" THEN page.cache ELSE page.pass.cache

\* The worker controls the page: its activate handler's clients.claim() has
\* settled.
Controlled == activate.pc = "activated"

\* preloadWithFetch(url, cache) of job j calls fetch(url), the page
\* otherwise become pg.  The fetch of a page that the worker does not
\* control goes to the network; that of a controlled page is a fetch event
\* of the worker, whose listener answers it with the strategy of its class.
PreloadWithFetch(j, pg) ==
  LET url == PageModels[j[2]]
      r == Route(url)
  IN IF Controlled /\ r.strategy # "none"
       THEN /\ page' = [pg EXCEPT !.jobs[j] = "worker"]
            /\ tasks' = tasks (+) SetToBag({[AfterOpen(CachesOpen(NewTask(r.strategy, url), r.cacheName))
                                               EXCEPT !.client = j]})
            /\ present' = [present EXCEPT ![r.cacheName] = TRUE]
       ELSE /\ page' = [pg EXCEPT !.jobs[j] = "fetch"]
            /\ UNCHANGED <<tasks, present>>

\* (mutant) the fetch of preloadWithFetch goes to the network whether the
\* worker controls the page or not.
PageMatchDirect(j) ==
  /\ page.jobs[j] = "match"
  /\ page' = [page EXCEPT !.jobs[j] =
                IF CacheMatch(JobCache(j), PageModels[j[2]]) # None
                  THEN "cached" ELSE "fetch"]
  /\ UNCHANGED <<present, gen, entries, tasks, clear, install, activate, status, preload, unknown>>

\* cache.match(model) of a callback of the burst settles: a model in the
\* cache is done with, any other goes to preloadWithFetch.
PageMatch(j) ==
  /\ page.jobs[j] = "match"
  /\ IF CacheMatch(JobCache(j), PageModels[j[2]]) # None
       THEN /\ page' = [page EXCEPT !.jobs[j] = "cached"]
            /\ UNCHANGED <<tasks, present>>
       ELSE PreloadWithFetch(j, page)
  /\ UNCHANGED <<gen, entries, clear, install, activate, status, preload, unknown>>

\* preloadWithFetch: the worker has answered the fetch of job j: an ok
\* response is put; any other, or a failure, ends the job.
PageWorkerReturn(j) ==
  /\ page.jobs[j] = "worker"
  /\ \E t \in Running :
       /\ t.client = j
       /\ t.pc \in {"returned", "threw"}
       /\ page' = [page EXCEPT !.jobs[j] =
                     IF t.pc = "returned" /\ Ok(t.result) THEN "put" ELSE "done"]
  /\ UNCHANGED <<present, gen, entries, tasks, clear, install, activate, status, preload, unknown>>

\* preloadWithFetch: fetch(url) resolves; an ok response is put.
PageFetchResolve(j, r) ==
  /\ page.jobs[j] = "fetch"
  /\ page' = [page EXCEPT !.jobs[j] = IF Ok(r) THEN "put" ELSE "done"]
  /\ UNCHANGED <<present, gen, entries, tasks, clear, install, activate, status, preload, unknown>>

\* preloadWithFetch: fetch(url) rejects; the catch block warns.
PageFetchReject(j) ==
  /\ page.jobs[j] = "fetch"
  /\ page' = [page EXCEPT !.jobs[j] = "done"]
  /\ UNCHANGED <<present, gen, entries, tasks, clear, install, activate, status, preload, unknown>>

\* preloadWithFetch: the awaited cache.put(url, response) settles.
PagePut(j) ==
  /\ page.jobs[j] = "put"
  /\ entries' = CachePut(JobCache(j), PageModels[j[2]], Response(StatusOk, 1))
  /\ page' = [page EXCEPT !.jobs[j] = "done", !.stored = @ \cup {j[2]}]
  /\ UNCHANGED <<present, gen, tasks, clear, install, activate, status, preload, unknown>>

\* preloadWithFetch: cache.put(url, response) rejects; the catch block
\* warns.
PagePutReject(j) ==
  /\ page.jobs[j] = "put"
  /\ page' = [page EXCEPT !.jobs[j] = "done"]
  /\ UNCHANGED <<present, gen, entries, tasks, clear, install, activate, status, preload, unknown>>

\* Promise.all settles, every callback of the burst done.
PageReady ==
  /\ page.pc = "burst"
  /\ \A j \in PageJobs : j[1] = "burst" => page.jobs[j] \in {"cached", "done"}
  /\ page' = [page EXCEPT !.pc = "ready"]
  /\ UNCHANGED <<present, gen, entries, tasks, clear, install, activate, status, preload, unknown>>

\* The idle callback runs ensureAllCached, which opens the partition and
\* looks its first model up.
PassStart ==
  /\ page.pass.pc = "scheduled"
  /\ page' = [page EXCEPT !.pass = [pc |-> "match", i |-> 1,
                                    cache |-> <<PageCacheName, gen[PageCacheName]>>]]
  /\ present' = [present EXCEPT ![PageCacheName] = TRUE]
  /\ UNCHANGED <<gen, entries, tasks, clear, install, activate, status, preload, unknown>>

\* (mutant) the pass starts preloadWithFetch for every model, in the cache
\* or not.
PassMatchRefetchAll ==
  /\ page.pass.pc = "match"
  /\ LET i == page.pass.i
         j == <<"pass", i>>
     IN page' = [page EXCEPT
                   !.jobs[j] = "fetch",
                   !.pass.pc = IF i < Len(PageModels) THEN "match" ELSE "done",
                   !.pass.i = IF i < Len(PageModels) THEN i + 1 ELSE i]
  /\ UNCHANGED <<present, gen, entries, tasks, clear, install, activate, status, preload, unknown>>

\* ensureAllCached: cache.match(model) settles; for a model not in the cache
\* preloadWithFetch is started and not awaited; the loop goes on.
PassMatch ==
  /\ page.pass.pc = "match"
  /\ LET i == page.pass.i
         j == <<"pass", i>>
         miss == CacheMatch(page.pass.cache, PageModels[i]) = None
         pg == [page EXCEPT
                  !.pass.pc = IF i < Len(PageModels) THEN "match" ELSE "done",
                  !.pass.i = IF i < Len(PageModels) THEN i + 1 ELSE i]
     IN IF miss
          THEN PreloadWithFetch(j, pg)
          ELSE /\ page' = pg
               /\ UNCHANGED <<tasks, present>>
  /\ UNCHANGED <<gen, entries, clear, install, activate, status, preload, unknown>>

\* ------------------------------------------------------------ the writers
\* Every writer of the partitions, one to a behaviour, on a storage that an
\* earlier writer left: the install handler, a strategy on a fetch event,
\* the PRELOAD_MODELS handler, or the page's preloader in a browser without
\* requestIdleCallback; CACHE_STATUS messages come at any time.
SystemUrls == {ExtraModelUrl, StyleUrl, PageUrl}

\* The models partition holds the manifest's first k models, the writer that
\* left them having failed on the others.
SystemInit ==
  /\ \E k \in 0..Len(MODEL_ASSETS) :
       /\ entries = {<<CACHE_NAMES.models, 0, MODEL_ASSETS[i], Response(StatusOk, 1)>> : i \in 1..k}
       /\ present = [n \in CacheNames |-> n = CACHE_NAMES.models /\ k > 0]
  /\ gen = [n \in CacheNames |-> 0]
  /\ Quiet

\* No writer has started.
NoWriter ==
  /\ tasks = EmptyBag
  /\ install.pc = "idle"
  /\ preload.pc = "idle"
  /\ page.pc = "idle"

SystemNext ==
  \/ NoWriter /\ InstallEvent
  \/ \E r \in ManifestResponses : InstallFetchResolve(r)
  \/ InstallFetchReject
  \/ InstallPut
  \/ \E failed \in SUBSET Range(STATIC_ASSETS) : InstallAddAllReject(failed)
  \/ InstallAddAllResolve
  \/ \E url \in SystemUrls : NoWriter /\ FetchEvent(url)
  \/ \E t \in Running : PutSettle(t)
  \/ \E t \in Running : CacheFirstMatch(t)
  \/ \E t \in Running, r \in NetworkResponses : CacheFirstResolve(t, r)
  \/ \E t \in Running : CacheFirstReject(t)
  \/ \E t \in Running : StaleMatch(t)
  \/ \E t \in Running, r \in NetworkResponses : StaleResolve(t, r)
  \/ \E t \in Running : StaleReject(t)
  \/ \E t \in Running, r \in NetworkResponses : NetworkFirstResolve(t, r)
  \/ \E t \in Running : NetworkFirstReject(t)
  \/ \E t \in Running : NetworkFirstMatch(t)
  \/ NoWriter /\ PreloadMessage
  \/ PreloadMatch
  \/ \E r \in ManifestResponses : PreloadFetchResolve(r)
  \/ PreloadFetchReject
  \/ PreloadPut
  \/ NoWriter /\ PageInit(FALSE)
  \/ \E j \in PageJobs : PageMatch(j)
  \/ \E j \in PageJobs, r \in ManifestResponses : PageFetchResolve(j, r)
  \/ \E j \in PageJobs : PageFetchReject(j)
  \/ \E j \in PageJobs : PagePut(j)
  \/ PageReady
  \/ StatusMessage
  \/ StatusKeys

SystemSpec == SystemInit /\ [][SystemNext]_vars

\* The message listener on CACHE_STATUS, PRELOAD_MODELS and messages of
\* other types.
OtherTypeNext ==
  \/ StatusMessage
  \/ StatusKeys
  \/ PreloadMessage
  \/ PreloadMatch
  \/ \E r \in ManifestResponses : PreloadFetchResolve(r)
  \/ PreloadFetchReject
  \/ PreloadPut
  \/ UnknownMessage

OtherTypeSpec == Init /\ [][OtherTypeNext]_vars

\* ------------------------------------------- CLEAR_CACHE and CACHE_STATUS
\* The storage the messages meet: any partitions, of this version or not,
\* the models partition holding the manifest's first k models.
ClearInit ==
  /\ present \in [CacheNames -> BOOLEAN]
  /\ \E k \in 0..Len(MODEL_ASSETS) :
       /\ k > 0 => present[CACHE_NAMES.models]
       /\ entries = {<<CACHE_NAMES.models, 0, MODEL_ASSETS[i], Response(StatusOk, 1)>> : i \in 1..k}
  /\ gen = [n \in CacheNames |-> 0]
  /\ Quiet

ClearNext ==
  \/ ClearMessage
  \/ ClearKeys
  \/ \E name \in CacheNames : ClearDelete(name)
  \/ ClearReply
  \/ StatusMessage
  \/ StatusKeys

ClearSpec == ClearInit /\ [][ClearNext]_vars

\* ------------------------------------------------ PRELOAD_MODELS, alone
\* The models partition holds any of the manifest's models, stored by an
\* earlier visit with the payload the server then held.
PreloadInit ==
  /\ \E held \in SUBSET (1..Len(MODEL_ASSETS)) :
       /\ entries = {<<CACHE_NAMES.models, 0, MODEL_ASSETS[i], Response(StatusOk, 2)>> : i \in held}
       /\ present = [n \in CacheNames |-> n = CACHE_NAMES.models /\ held # {}]
  /\ gen = [n \in CacheNames |-> 0]
  /\ Quiet

PreloadNext ==
  \/ PreloadMessage
  \/ PreloadMatch
  \/ \E r \in ManifestResponses : PreloadFetchResolve(r)
  \/ PreloadFetchReject
  \/ PreloadPut

PreloadSpec == PreloadInit /\ [][PreloadNext]_vars

\* ------------------------------------------------- preloadAllModels, alone
\* The page's burst in a browser without requestIdleCallback, on a models
\* partition that holds any of the manifest's models.
BurstNext ==
  \/ PageInit(FALSE)
  \/ \E j \in PageJobs : PageMatch(j)
  \/ \E j \in PageJobs, r \in ManifestResponses : PageFetchResolve(j, r)
  \/ \E j \in PageJobs : PageFetchReject(j)
  \/ \E j \in PageJobs : PagePut(j)
  \/ \E j \in PageJobs : PagePutReject(j)
  \/ PageReady

BurstSpec == PreloadInit /\ [][BurstNext]_vars

\* ------------------------------------- the page's models, seen by the worker
\* The page's burst on an empty storage, in a browser without
\* requestIdleCallback; once it has ended, the worker is handed a fetch event
\* for a model and CACHE_STATUS messages.
SharedNext ==
  \/ PageInit(FALSE)
  \/ \E j \in PageJobs : PageMatch(j)
  \/ \E j \in PageJobs, r \in ManifestResponses : PageFetchResolve(j, r)
  \/ \E j \in PageJobs : PageFetchReject(j)
  \/ \E j \in PageJobs : PagePut(j)
  \/ \E j \in PageJobs : PagePutReject(j)
  \/ PageReady
  \/ \E url \in Range(MODEL_ASSETS) :
       page.pc = "ready" /\ tasks = EmptyBag /\ FetchEvent(url)
  \/ \E t \in Running : CacheFirstMatch(t)
  \/ \E t \in Running, r \in ManifestResponses : CacheFirstResolve(t, r)
  \/ \E t \in Running : CacheFirstReject(t)
  \/ \E t \in Running : PutSettle(t)
  \/ page.pc = "ready" /\ StatusMessage
  \/ StatusKeys

SharedSpec == Init /\ [][SharedNext]_vars

\* ------------------------------------------------- install and the network
\* The install and activate handlers alone, on a network that leaves the
\* fetch hung unsettled for ever and settles every other: a settled
\* promise's continuation is run, hence the weak fairness.
HungInit ==
  /\ present \in [CacheNames -> BOOLEAN]
  /\ \A n \in CurrentNames : ~present[n]
  /\ gen = [n \in CacheNames |-> 0]
  /\ entries = {}
  /\ tasks = EmptyBag
  /\ clear = [pc |-> "idle", names |-> {}, count |-> 0]
  /\ \E k \in 0..(Len(MODEL_ASSETS) + 1) : install = [InstallIdle EXCEPT !.hung = k]
  /\ activate = ActivateIdle
  /\ status = StatusIdle
  /\ preload = PreloadIdle
  /\ unknown = UnknownIdle
  /\ page = PageIdle

HungNext ==
  \/ InstallEvent
  \/ \E r \in ManifestResponses : InstallFetchResolve(r)
  \/ InstallFetchReject
  \/ InstallPut
  \/ \E failed \in SUBSET Range(STATIC_ASSETS) : InstallAddAllReject(failed)
  \/ InstallAddAllResolve
  \/ ActivateEvent
  \/ ActivateKeys
  \/ \E name \in CacheNames : ActivateDelete(name)
  \/ ActivateClaim
  \/ ActivateDone

FairHungSpec == HungInit /\ [][HungNext]_vars /\ WF_vars(HungNext)

\* ------------------------------------------- install beside PRELOAD_MODELS
\* The install handler and one PRELOAD_MODELS handler, interleaved at will
\* on an empty storage.
RaceNext ==
  \/ InstallEvent
  \/ \E r \in ManifestResponses : InstallFetchResolve(r)
  \/ InstallFetchReject
  \/ InstallPut
  \/ \E failed \in SUBSET Range(STATIC_ASSETS) : InstallAddAllReject(failed)
  \/ InstallAddAllResolve
  \/ preload.pc = "idle" /\ PreloadMessage
  \/ PreloadMatch
  \/ \E r \in ManifestResponses : PreloadFetchResolve(r)
  \/ PreloadFetchReject
  \/ PreloadPut

RaceSpec == Init /\ [][RaceNext]_vars

\* ------------------------------------------------ the burst and the idle pass
\* The callbacks of the burst that have not ended.
BurstLeft ==
  {j \in PageJobs : j[1] = "burst" /\ page.jobs[j] \notin {"idle", "cached", "done"}}

\* The page's preloader on an empty storage, in a browser with or without
\* requestIdleCallback; the idle callback comes when the burst has ended or
\* when one callback of it is all that is left.
PassNext ==
  \/ \E idle \in BOOLEAN : PageInit(idle)
  \/ \E j \in PageJobs : PageMatch(j)
  \/ \E j \in PageJobs, r \in ManifestResponses : PageFetchResolve(j, r)
  \/ \E j \in PageJobs : PageFetchReject(j)
  \/ \E j \in PageJobs : PagePut(j)
  \/ \E j \in PageJobs : PagePutReject(j)
  \/ PageReady
  \/ Cardinality(BurstLeft) <= 1 /\ PassStart
  \/ PassMatch

PassSpec == Init /\ [][PassNext]_vars

\* --------------------------------------- the page's burst and the worker
\* The models an earlier installation may have failed to fetch, at most.
MaxMissing == 1

\* The page is loaded on a first visit, nothing stored and no worker in
\* control, or on a later one: the worker installed, activated and in
\* control, the models partition holding the models its installation
\* fetched.
InterceptInit ==
  /\ gen = [n \in CacheNames |-> 0]
  /\ tasks = EmptyBag
  /\ clear = [pc |-> "idle", names |-> {}, count |-> 0]
  /\ status = StatusIdle
  /\ preload = PreloadIdle
  /\ unknown = UnknownIdle
  /\ page = PageIdle
  /\ \/ /\ present = [n \in CacheNames |-> FALSE]
        /\ entries = {}
        /\ install = InstallIdle
        /\ activate = ActivateIdle
     \/ \E held \in SUBSET (1..Len(MODEL_ASSETS)) :
          /\ Len(MODEL_ASSETS) - Cardinality(held) <= MaxMissing
          /\ present = [n \in CacheNames |-> n \in {CACHE_NAMES.models, CACHE_NAMES.static}]
          /\ entries =
               {<<CACHE_NAMES.models, 0, MODEL_ASSETS[i], Response(StatusOk, 1)>> : i \in held}
                 \cup {<<CACHE_NAMES.static, 0, url, Response(StatusOk, 1)>> :
                         url \in Range(STATIC_ASSETS)}
          /\ install = [InstallIdle EXCEPT
                          !.pc = "installed", !.i = Len(MODEL_ASSETS),
                          !.cache = <<CACHE_NAMES.static, 0>>,
                          !.skipWaiting = TRUE,
                          !.failures = Len(MODEL_ASSETS) - Cardinality(held),
                          !.fetched = held]
          /\ activate = [ActivateIdle EXCEPT !.pc = "activated"]

InterceptNext ==
  \/ PageInit(FALSE)
  \/ \E j \in PageJobs : PageMatch(j)
  \/ \E j \in PageJobs, r \in ManifestResponses : PageFetchResolve(j, r)
  \/ \E j \in PageJobs : PageFetchReject(j)
  \/ \E j \in PageJobs : PageWorkerReturn(j)
  \/ \E j \in PageJobs : PagePut(j)
  \/ \E j \in PageJobs : PagePutReject(j)
  \/ PageReady
  \/ \E t \in Running : CacheFirstMatch(t)
  \/ \E t \in Running, r \in ManifestResponses : CacheFirstResolve(t, r)
  \/ \E t \in Running : CacheFirstReject(t)
  \/ \E t \in Running : PutSettle(t)

InterceptSpec == InterceptInit /\ [][InterceptNext]_vars

\* ------------------------------------ PRELOAD_MODELS, then CACHE_STATUS
\* PRELOAD_MODELS messages on a models partition that holds any of the
\* manifest's models, nothing else writing or deleting; CACHE_STATUS
\* messages follow the reply to the last of them.
FollowNext ==
  \/ status.pc = "idle" /\ PreloadMessage
  \/ PreloadMatch
  \/ \E r \in ManifestResponses : PreloadFetchResolve(r)
  \/ PreloadFetchReject
  \/ PreloadPut
  \/ preload.pc = "replied" /\ StatusMessage
  \/ StatusKeys

FollowSpec == PreloadInit /\ [][FollowNext]_vars

TypeOK ==
  /\ present \in [CacheNames -> BOOLEAN]
  /\ gen \in [CacheNames -> Gens]
  /\ \A t \in Running : t.fetches \in 0..1

\* ----------------------------------------------------------------- claims
\* The step replaces handler t by t2.
Moved(t, t2) == t2 # t /\ tasks' = Become(t, t2)

\* The handler's fetch has settled with a failure: a rejection or a
\* response that is not ok.
FetchFailed(t) == t.fetches = 1 /\ ~t.fetching /\ ~Ok(t.networkResponse)

\* The handler returned an ok network response to its caller.
ReturnedLive(t) == t.pc = "returned" /\ Ok(t.networkResponse) /\ t.result = t.networkResponse

\* The put the handler started for its ok network response is pending, or
\* has settled; once settled, the partition's entry was that response
\* unless the partition had been deleted since the handler opened it.
PutStartedAndLands(t) ==
  \/ t.put = t.networkResponse
  \/ t.put = None /\ (t.stored \/ ~Attached(t))

C2_HitReturnsStored ==
  [][\A t \in Running : \A t2 \in BagToSet(tasks') :
       (/\ Moved(t, t2)
        /\ t.strategy = "cacheFirst"
        /\ t.pc = "match"
        /\ CacheMatch(t.cache, t.request) # None)
       => /\ t2.pc = "returned"
          /\ t2.result = CacheMatch(t.cache, t.request)
          /\ t2.fetches = 0
          /\ ~t2.fetching
          /\ t2.put = None
          /\ entries' = entries
          /\ present' = present]_vars

C2_Witness ==
  \E t \in Running :
    /\ t.strategy = "cacheFirst"
    /\ t.pc = "returned"
    /\ t.cachedResponse # None
    /\ t.result = t.cachedResponse
    /\ PartitionEntry(CACHE_NAMES.models, t.request) = t.result

C4_MissFailurePropagates ==
  [][\A t \in Running : \A t2 \in BagToSet(tasks') :
       (/\ Moved(t, t2)
        /\ t.strategy = "cacheFirst"
        /\ t.pc = "fetch"
        /\ FetchFailed(t2))
       => /\ t2.put = None
          /\ t2.cachedResponse = None
          /\ IF t2.networkResponse = None
               THEN t2.pc = "threw" /\ t2.result = None
               ELSE t2.pc = "returned" /\ t2.result = t2.networkResponse
          /\ entries' = entries
          /\ PartitionEntry(CACHE_NAMES.models, t.request)' =
               PartitionEntry(CACHE_NAMES.models, t.request)]_vars

C4_Witness ==
  \E t \in Running :
    /\ t.strategy = "cacheFirst"
    /\ t.pc = "threw"
    /\ FetchFailed(t)
    /\ PartitionEntry(CACHE_NAMES.models, t.request) = None

\* C5: a staleWhileRevalidate whose lookup found a cached response has
\* returned it, at once, and that stays its answer whether its fetch is
\* still in flight, has resolved or has rejected.
C5_StaleServedFromCache ==
  \A t \in Running :
    t.strategy = "staleWhileRevalidate" /\ t.cachedResponse # None =>
      /\ t.pc = "returned"
      /\ t.result = t.cachedResponse

C5_Witness ==
  \E t \in Running :
    /\ t.strategy = "staleWhileRevalidate"
    /\ t.cachedResponse # None
    /\ t.result = t.cachedResponse
    /\ ~t.fetching
    /\ Ok(t.networkResponse)
    /\ t.networkResponse # t.cachedResponse

\* C6: every staleWhileRevalidate has started exactly one network fetch
\* once its lookup has settled, on a hit as on a miss, and none before.
C6_StaleFetchesOnce ==
  \A t \in Running :
    t.strategy = "staleWhileRevalidate" =>
      t.fetches = (IF t.pc = "match" THEN 0 ELSE 1)

C6_Witness ==
  /\ \E t \in Running :
       /\ t.strategy = "staleWhileRevalidate"
       /\ t.cachedResponse # None
       /\ t.fetches = 1
  /\ \E t \in Running :
       /\ t.strategy = "staleWhileRevalidate"
       /\ t.pc = "returned"
       /\ t.cachedResponse = None
       /\ t.fetches = 1

\* C7 (as claimed): once the put of a staleWhileRevalidate's successful
\* network response has settled, the static partition's entry for the
\* request was that response.
C7_FreshResponseStored ==
  \A t \in Running :
    /\ t.strategy = "staleWhileRevalidate"
    /\ Ok(t.networkResponse)
    /\ t.put = None
    => t.stored

\* C7 (amended): a staleWhileRevalidate whose fetch has succeeded, and whose
\* fresh response has not yet been seen stored, leads to the static
\* partition's entry for the request being the fresh response, whether the
\* caller was served the cached copy or the network response, unless the
\* partition is deleted after the strategy opened it.
C7_FreshResponseEventuallyStored ==
  \A u \in StaticUrls : \A r \in NetworkResponses : \A g \in Gens :
    (\E t \in Running :
       /\ t.strategy = "staleWhileRevalidate"
       /\ t.request = u
       /\ t.networkResponse = r
       /\ ~t.stored
       /\ Ok(r)
       /\ t.cache = <<CACHE_NAMES.static, g>>)
    ~> (\/ PartitionEntry(CACHE_NAMES.static, u) = r
        \/ gen[CACHE_NAMES.static] # g)

C7_Witness ==
  /\ \E t \in Running :
       /\ t.strategy = "staleWhileRevalidate"
       /\ t.cachedResponse # None
       /\ t.stored
       /\ t.networkResponse # t.cachedResponse
       /\ PartitionEntry(CACHE_NAMES.static, t.request) = t.networkResponse
  /\ \E t \in Running :
       /\ t.strategy = "staleWhileRevalidate"
       /\ t.cachedResponse = None
       /\ t.stored

\* C8 (as claimed): a staleWhileRevalidate that found no cached response
\* gives its caller the network response when the fetch resolves, and
\* fails when the fetch rejects: it does not complete with an empty result.
C8_StaleMissSurfacesFailure ==
  \A t \in Running :
    /\ t.strategy = "staleWhileRevalidate"
    /\ t.cachedResponse = None
    /\ t.fetches = 1
    /\ ~t.fetching
    => IF t.networkResponse = None
         THEN t.pc = "threw"
         ELSE t.pc = "returned" /\ t.result = t.networkResponse

\* C9 (as claimed): a networkFirst whose fetch succeeded returns the live
\* response, and once its put has settled the runtime partition's entry
\* for the request was the returned response.
C9_LiveResponseStored ==
  \A t \in Running :
    t.strategy = "networkFirst" /\ Ok(t.networkResponse) =>
      /\ ReturnedLive(t)
      /\ t.put = None => t.stored

\* C9 (amended): a networkFirst whose fetch succeeded returns the live
\* response and has started the put of it; once the put has settled the
\* runtime partition's entry was the returned response, unless the
\* partition was deleted after the strategy opened it.
C9_LiveResponseStoredUnlessDeleted ==
  \A t \in Running :
    t.strategy = "networkFirst" /\ Ok(t.networkResponse) =>
      /\ ReturnedLive(t)
      /\ PutStartedAndLands(t)

C9_Witness ==
  \E t \in Running :
    /\ t.strategy = "networkFirst"
    /\ ReturnedLive(t)
    /\ t.stored
    /\ PartitionEntry(CACHE_NAMES.runtime, t.request) = t.result

\* C10: when networkFirst's fetch rejects, the catch block returns the
\* response its lookup finds, and rethrows when it finds none; neither the
\* rejection nor the lookup changes an entry or starts a put.
C10_FailureFallsBackToCache ==
  [][\A t \in Running : \A t2 \in BagToSet(tasks') :
       (/\ Moved(t, t2)
        /\ t.strategy = "networkFirst"
        /\ t2.networkResponse = None
        /\ ~t2.fetching)
       => /\ entries' = entries
          /\ t2.put = None
          /\ t.pc = "fetch" => t2.pc = "match"
          /\ t.pc = "match" =>
               IF CacheMatch(t.cache, t.request) # None
                 THEN /\ t2.pc = "returned"
                      /\ t2.result = CacheMatch(t.cache, t.request)
                 ELSE /\ t2.pc = "threw"
                      /\ t2.result = None]_vars

C10_Witness ==
  \E t \in Running :
       /\ t.strategy = "networkFirst"
       /\ t.pc = "returned"
       /\ t.networkResponse = None
       /\ t.result # None
       /\ t.result = PartitionEntry(CACHE_NAMES.runtime, t.request)

\* The handler is one of the two strategies that fall back on the cache and
\* has finished.
FallbackFinished(t) ==
  /\ t.strategy \in {"networkFirst", "staleWhileRevalidate"}
  /\ t.pc \in {"returned", "threw"}

\* C11 (as claimed): a networkFirst or staleWhileRevalidate handler whose
\* fetch failed, by a rejection or by a response that is not ok, and whose
\* partition held a match for the request, returns that cached match; the
\* failure does not reach the caller.
C11_AnyFailureRecoveredFromCache ==
  \A t \in Running :
    (FallbackFinished(t) /\ FetchFailed(t) /\ t.hadEntry)
      => /\ t.pc = "returned"
         /\ t.cachedResponse # None
         /\ t.result = t.cachedResponse

\* C11 (amended): a rejected fetch is recovered from the cache whenever the
\* partition held a match, and staleWhileRevalidate returns its cached match
\* whatever the fetch does; a response that is not ok is no failure to
\* networkFirst, which returns it to the caller without looking at the
\* cache. A rejection leaves networkFirst only when its lookup found nothing.
C11_RejectionRecoveredFromCache ==
  \A t \in Running :
    (FallbackFinished(t) /\ FetchFailed(t)) =>
      /\ (t.strategy = "staleWhileRevalidate" /\ t.hadEntry)
           => (t.pc = "returned" /\ t.result = t.cachedResponse /\ Ok(t.result))
      /\ (t.strategy = "networkFirst" /\ t.networkResponse = None /\ t.hadEntry)
           => (t.pc = "returned" /\ t.result = t.cachedResponse /\ Ok(t.result))
      /\ (t.strategy = "networkFirst" /\ t.networkResponse # None)
           => (t.pc = "returned" /\ t.result = t.networkResponse)
      /\ (t.strategy = "networkFirst" /\ t.pc = "threw")
           => (t.networkResponse = None /\ t.cachedResponse = None)

C11_Witness ==
  \E t \in Running :
    /\ t.strategy = "networkFirst" /\ t.pc = "returned" /\ t.hadEntry
    /\ t.networkResponse = Response(StatusServerError, 0)
    /\ t.result = t.networkResponse
    /\ Ok(PartitionEntry(CACHE_NAMES.runtime, t.request))

\* The part of a pathname after its last dot; the empty sequence when the
\* pathname has no dot.
Extension(path) ==
  LET dots == {i \in 1..Len(path) : path[i] = "."} IN
    IF dots = {} THEN <<>>
    ELSE LET last == CHOOSE i \in dots : \A j \in dots : j <= i IN
           SubSeq(path, last + 1, Len(path))

\* The partitions the handlers of intercepted requests were given.
RoutedPartitions ==
  {t.cache[1] : t \in {h \in Running : h.strategy # "none"}}

\* C12: every same-origin request is given at most one strategy, read off
\* its path alone: cacheFirst on the models partition when the path's last
\* suffix is .glb or .gltf; else staleWhileRevalidate on the static partition
\* when it is one of css, js, png, jpg, jpeg, svg, woff, woff2; else
\* networkFirst on the runtime partition when it is .html or the path is "/";
\* a request matching none is not intercepted, and the only partitions that
\* exist are those of the intercepted requests.
C12_SelectorByPath ==
  /\ \A t \in Running :
       t.request.origin = SelfOrigin =>
         LET p == t.request.pathname
             e == Extension(p)
         IN  IF e \in {<<"g", "l", "b">>, <<"g", "l", "t", "f">>}
               THEN t.strategy = "cacheFirst" /\ t.cache[1] = "penta-3d-models-v1"
             ELSE IF e \in {<<"c", "s", "s">>, <<"j", "s">>, <<"p", "n", "g">>,
                            <<"j", "p", "g">>, <<"j", "p", "e", "g">>,
                            <<"s", "v", "g">>, <<"w", "o", "f", "f">>,
                            <<"w", "o", "f", "f", "2">>}
               THEN t.strategy = "staleWhileRevalidate" /\ t.cache[1] = "penta-static-v1"
             ELSE IF e = <<"h", "t", "m", "l">> \/ p = <<"/">>
               THEN t.strategy = "networkFirst" /\ t.cache[1] = "penta-runtime-v1"
             ELSE t.strategy = "none" /\ t.pc = "passthrough" /\ t.cache = <<"", 0>>
  /\ \A n \in CacheNames : present[n] <=> n \in RoutedPartitions
  /\ entries = {}

C12_Witness ==
  /\ \E t \in Running :
       /\ t.request = Url(SelfOrigin, Stem \o <<".", "g", "l", "b">> \o <<".", "c", "s", "s">>)
       /\ t.strategy = "staleWhileRevalidate"
  /\ \E t \in Running :
       /\ t.request = Url(SelfOrigin, Stem \o <<".", "c", "s", "s">> \o <<".", "t", "x", "t">>)
       /\ t.pc = "passthrough"
  /\ ~present[CACHE_NAMES.models]

\* C13: a request to another origin is never intercepted, whatever its
\* path's suffix: its handler runs no strategy, starts no fetch and no put
\* and holds no Cache object, and every partition that exists was opened
\* for a same-origin request.
C13_CrossOriginUntouched ==
  /\ \A t \in Running :
       t.request.origin # SelfOrigin =>
         /\ t.strategy = "none"
         /\ t.pc = "passthrough"
         /\ t.cache = <<"", 0>>
         /\ t.fetches = 0 /\ ~t.fetching /\ t.put = None
  /\ \A n \in CacheNames :
       present[n] => \E t \in Running : t.request.origin = SelfOrigin /\ t.cache[1] = n
  /\ \A e \in entries : e[3].origin = SelfOrigin

C13_Witness ==
  /\ \E t \in Running :
       /\ t.request = Url(OtherOrigin, Stem \o <<".", "g", "l", "b">>)
       /\ t.pc = "passthrough"
  /\ \E t \in Running :
       /\ t.request = Url(OtherOrigin, Stem \o <<".", "h", "t", "m", "l">>)
       /\ t.pc = "passthrough"
  /\ \A n \in CacheNames : ~present[n]

\* C15: with the manifest's 6 models, the fetch of any k of them failing
\* does not fail the installation (it can fail only once the static assets
\* are being stored), and a CACHE_STATUS message that follows the successful
\* installation is answered with totalModels = 6 and cachedCount = 6 - k.
C15_ModelFailuresTolerated ==
  /\ install.pc = "failed" =>
       (install.i = 6 /\ install.cache[1] = CACHE_NAMES.static)
  /\ install.pc \in {"addAll", "installed", "failed"} => install.failures \in 0..6
  /\ (status.pc = "replied" /\ status.afterInstall) =>
       /\ install.pc = "installed"
       /\ status.reply.totalModels = 6
       /\ status.reply.cachedCount = 6 - install.failures

C15_Witness ==
  /\ install.pc = "installed"
  /\ install.failures = 2
  /\ status.pc = "replied"
  /\ status.afterInstall
  /\ status.reply.cachedCount = 4

\* C16: when the fetch of a static asset fails in install's addAll, the
\* installation fails: the static partition holds none of the batch's
\* assets, skipWaiting has not been called, the worker's activate event never
\* fires and the previous version stays the active one.
C16_StaticFailureFailsInstall ==
  install.pc = "failed" =>
    /\ \A i \in 1..Len(STATIC_ASSETS) :
         PartitionEntry(CACHE_NAMES.static, STATIC_ASSETS[i]) = None
    /\ ~install.skipWaiting
    /\ activate = ActivateIdle
    /\ ActiveVersion = "previous"

C16_Witness ==
  /\ install.pc = "failed"
  /\ present[CACHE_NAMES.static]
  /\ install.failures = 0
  /\ PartitionEntry(CACHE_NAMES.models, MODEL_ASSETS[6]) # None

\* C17: once the activate handler has completed, storage holds no partition
\* whose name is not one of the three current names, whichever partitions
\* existed when it started.
C17_OnlyCurrentPartitionsRemain ==
  activate.pc = "activated" =>
    \A n \in CacheNames : present[n] => n \in CurrentNames

C17_Witness ==
  /\ activate.pc = "activated"
  /\ \A n \in OldNames : gen[n] = 1
  /\ present[CACHE_NAMES.models]
  /\ present[CACHE_NAMES.static]

\* The replies posted for the CLEAR_CACHE message being handled.
ClearReplies == IF clear.pc = "replied" THEN 1 ELSE 0

\* C18 (as claimed): a CACHE_STATUS, CLEAR_CACHE or PRELOAD_MODELS message
\* is answered with exactly one reply: never more than one, and never none
\* once its handler has run to its end, a cache or network operation having
\* failed or not.
C18_ExactlyOneReply ==
  /\ status.replies <= 1 /\ preload.replies <= 1
  /\ status.pc \in {"replied", "rejected"} => status.replies = 1
  /\ clear.pc \in {"replied", "rejected"} => ClearReplies = 1
  /\ preload.pc \in {"replied", "rejected"} => preload.replies = 1

\* C19: a message of any other type is passed over: it is given no reply,
\* starts no handler and changes no partition.
C19_UnknownTypeIgnored ==
  [][unknown' # unknown =>
       /\ unknown'.replies = 0
       /\ UNCHANGED <<present, gen, entries>>
       /\ UNCHANGED <<tasks, clear, install, activate, status, preload, page>>]_vars

C19_Witness ==
  /\ unknown.count = 1
  /\ unknown.replies = 0
  /\ \A n \in CacheNames : ~present[n]
  /\ status.pc = "idle" /\ preload.pc = "idle" /\ clear.pc = "idle"

\* The partition a key belongs to by its resource class, read off the last
\* suffix of its path; "" for a key of no class.
ClassPartition(url) ==
  LET e == Extension(url.pathname) IN
    IF e \in {<<"g", "l", "b">>, <<"g", "l", "t", "f">>}
      THEN "penta-3d-models-v1"
    ELSE IF e \in {<<"c", "s", "s">>, <<"j", "s">>, <<"p", "n", "g">>,
                   <<"j", "p", "g">>, <<"j", "p", "e", "g">>,
                   <<"s", "v", "g">>, <<"w", "o", "f", "f">>,
                   <<"w", "o", "f", "f", "2">>}
      THEN "penta-static-v1"
    ELSE IF e = <<"h", "t", "m", "l">> \/ url.pathname = <<"/">>
      THEN "penta-runtime-v1"
    ELSE ""

\* C14: every key stored in a partition, whether by the install handler, a
\* strategy, the PRELOAD_MODELS handler or the page's preloader, is of that
\* partition's resource class, and no key is in two partitions.
C14_KeysMatchPartitionClass ==
  /\ \A e \in entries : e[3].origin = SelfOrigin /\ ClassPartition(e[3]) = e[1]
  /\ \A e1, e2 \in entries : e1[3] = e2[3] => e1[1] = e2[1]

\* The page's preloader has stored every model.
C14_Witness ==
  /\ page.pc = "ready"
  /\ \A j \in PageJobs : j[1] = "burst" => page.jobs[j] = "done"
  /\ \A i \in 1..Len(MODEL_ASSETS) :
       PartitionEntry(CACHE_NAMES.models, MODEL_ASSETS[i]) = Response(StatusOk, 1)

\* C20 (as claimed): every CACHE_STATUS reply has cachedCount <= totalModels
\* and as many cachedModels as cachedCount.
C20_StatusCountsBounded ==
  status.pc = "replied" =>
    /\ status.reply.cachedCount <= status.reply.totalModels
    /\ Len(status.reply.cachedModels) = status.reply.cachedCount

\* C21 (as claimed): a CACHE_STATUS message that follows a CLEAR_CACHE
\* message is answered with cachedCount = 0 and no cachedModels.
C21_StatusAfterClearMessageIsEmpty ==
  (status.pc = "replied" /\ status.clearAt # "idle") =>
    (status.reply.cachedCount = 0 /\ status.reply.cachedModels = <<>>)

\* C21 (amended): a CACHE_STATUS message that arrives once the CLEAR_CACHE
\* reply has been posted, nothing being written in between, is answered with
\* cachedCount = 0 and no cachedModels.
C21_StatusAfterClearReplyIsEmpty ==
  (status.pc = "replied" /\ status.clearAt = "replied") =>
    (status.reply.cachedCount = 0 /\ status.reply.cachedModels = <<>>)

C21_Witness ==
  /\ status.pc = "replied"
  /\ status.clearAt = "replied"
  /\ status.reply.cachedCount = 0
  /\ gen[CACHE_NAMES.models] = 1
  /\ \E e \in entries : e[1] = CACHE_NAMES.models /\ e[2] = 0

\* C22: the CLEAR_CACHE handler sets out to delete every partition that
\* storage holds when caches.keys() settles, of the current version or not;
\* each of them leaves its list only by being deleted, and {success: true}
\* is posted only once none is left.
C22_ClearDeletesAllThenReplies ==
  [][/\ (clear.pc = "keys" /\ clear'.pc = "deleting")
          => clear'.names = {n \in CacheNames : present[n]}
     /\ (clear.pc = "deleting" /\ clear'.names # clear.names)
          => \E n \in clear.names :
               /\ clear'.names = clear.names \ {n}
               /\ ~present'[n]
               /\ present[n] => gen'[n] = gen[n] + 1
     /\ (clear.pc # "replied" /\ clear'.pc = "replied")
          => (clear.pc = "deleting" /\ clear.names = {})]_vars

\* The handler has replied, having deleted partitions of this version and of
\* an earlier one.
C22_Witness ==
  /\ clear.pc = "replied"
  /\ gen[CACHE_NAMES.models] = 1
  /\ gen[CACHE_NAMES.runtime] = 1
  /\ gen["penta-static-v0"] = 1
  /\ gen["foreign-cache"] = 1
  /\ status.pc = "idle"
  /\ \A n \in CacheNames : ~present[n]

\* The models the partition held when the PRELOAD_MODELS message came.
HeldBefore == {i \in 1..Len(MODEL_ASSETS) : preload.before[i] # None}

\* C23: the PRELOAD_MODELS handler starts a fetch for every manifest model
\* the models partition does not hold and for none it holds, whose entry
\* stays as it was; it posts {success: true} once, after every fetch and
\* store it started has settled, whether the fetches succeeded or not.
C23_PreloadFetchesMissingOnly ==
  /\ preload.pc # "rejected"
  /\ preload.pc # "idle" =>
       /\ \A i \in 1..Len(MODEL_ASSETS) :
            /\ i < preload.i => (i \in preload.attempted <=> i \notin HeldBefore)
            /\ i \in preload.attempted => i \notin HeldBefore
            /\ i \in HeldBefore =>
                 CacheMatch(preload.cache, MODEL_ASSETS[i]) = preload.before[i]
       /\ preload.replies = (IF preload.pc = "replied" THEN 1 ELSE 0)
  /\ preload.pc = "replied" =>
       /\ preload.attempted = (1..Len(MODEL_ASSETS)) \ HeldBefore
       /\ preload.settled = preload.attempted
       /\ preload.response = None

\* The handler has replied, three models being held before and the fetch of
\* the other three having failed.
C23_Witness ==
  /\ preload.pc = "replied"
  /\ preload.replies = 1
  /\ HeldBefore = {1, 3, 5}
  /\ preload.attempted = {2, 4, 6}
  /\ \A i \in {2, 4, 6} : CacheMatch(preload.cache, MODEL_ASSETS[i]) = None

\* The entries that e holds for url in Cache object c, and the keys of c.
EntriesFor(e, c, url) == {x \in e : x[1] = c[1] /\ x[2] = c[2] /\ x[3] = url}
KeysOf(e, c) == {x[3] : x \in {y \in e : y[1] = c[1] /\ y[2] = c[2]}}

BurstJobs == {j \in PageJobs : j[1] = "burst"}

\* Before preloadAllModels no callback runs; once it has opened the
\* partition the callback of every model has been started, none waiting for
\* another; Promise.all settles only once every callback has ended, and
\* preloadAllModels never fails.
BurstStarted ==
  /\ page.pc \in {"idle", "burst", "ready"}
  /\ page.pc = "idle" => \A j \in BurstJobs : page.jobs[j] = "idle"
  /\ page.pc = "burst" =>
       \A j \in BurstJobs : page.jobs[j] \in {"match", "fetch", "put", "cached", "done"}
  /\ page.pc = "ready" =>
       \A j \in BurstJobs : page.jobs[j] \in {"cached", "done"}

\* C25: the page's preloader starts the lookups and fetches of all models
\* together, so that the fetches of all uncached models may be in flight at
\* once; a callback whose fetch or put fails ends alone, leaving every other
\* callback where it was and free to go on, and preloadAllModels itself
\* never fails.
C25_BurstIsConcurrentAndIsolated ==
  [][/\ BurstStarted
     /\ BurstStarted'
     /\ \A j \in BurstJobs :
          (page.jobs[j] \in {"fetch", "put"} /\ page'.jobs[j] = "done" /\ entries' = entries)
            => /\ \A k \in BurstJobs \ {j} : page'.jobs[k] = page.jobs[k]
               /\ page'.pc = page.pc
               /\ page'.cache = page.cache
     /\ \A j \in BurstJobs :
          (page.jobs[j] = "put" /\ page'.jobs[j] = "done" /\ entries' # entries)
            => /\ Stored(entries', page.cache, PageModels[j[2]]) = Response(StatusOk, 1)
               /\ \A k \in BurstJobs \ {j} : page'.jobs[k] = page.jobs[k]]_vars

\* The fetch of the first model has failed, and the fetches of the others,
\* in flight together, have all resolved: their puts are pending.
C25_Witness ==
  /\ page.pc = "burst"
  /\ page.jobs[<<"burst", 1>>] = "done"
  /\ CacheMatch(page.cache, PageModels[1]) = None
  /\ \A j \in BurstJobs \ {<<"burst", 1>>} : page.jobs[j] = "put"
  /\ entries = {}

\* C26: the name the page's preloader opens is the worker's models partition
\* name for its CACHE_VERSION, so every model the preloader has stored is an
\* entry of the worker's models partition: a cacheFirst lookup of it made
\* afterwards returns the stored response without a fetch, and a
\* CACHE_STATUS reply made afterwards lists it.
C26_PageSharesModelsPartition ==
  /\ PageCacheName = "penta-3d-models-" \o CACHE_VERSION
  /\ PageCacheName = CACHE_NAMES.models
  /\ \A i \in page.stored :
       /\ PartitionEntry(CACHE_NAMES.models, PageModels[i]) = Response(StatusOk, 1)
       /\ \A t \in Running :
            (t.strategy = "cacheFirst" /\ t.request = PageModels[i] /\ t.pc # "match")
              => /\ t.pc = "returned"
                 /\ t.fetches = 0
                 /\ t.result = Response(StatusOk, 1)
       /\ status.pc = "replied" =>
            \E k \in 1..Len(status.reply.cachedModels) :
              status.reply.cachedModels[k] = PageModels[i]

\* The page has stored the last model of its list alone; the worker has
\* answered a request for it from the partition and listed it in a
\* CACHE_STATUS reply.
C26_Witness ==
  /\ page.pc = "ready"
  /\ page.stored = {Len(PageModels)}
  /\ \E t \in Running :
       /\ t.request = PageModels[Len(PageModels)]
       /\ t.pc = "returned"
       /\ t.fetches = 0
  /\ status.pc = "replied"
  /\ status.reply.cachedModels = <<PageModels[Len(PageModels)]>>

\* The attempt the install loop was waiting for settles with this step: its
\* fetch fails and nothing is stored, or its put stores the response fetched.
InstallAttemptSettles ==
  \/ /\ install.pc = "fetch"
     /\ install'.failures = install.failures + 1
     /\ entries' = entries
  \/ /\ install.pc = "put"
     /\ install'.failures = install.failures
     /\ Stored(entries', install.cache, MODEL_ASSETS[install.i]) = install.response

\* C27: the install handler attempts the models one at a time, in the order
\* of the manifest: the handler waits for one fetch or one put at any time,
\* the fetch of model i+1 starts with the step that settles the attempt for
\* model i, and addAll(STATIC_ASSETS) starts with the step that settles the
\* attempt for the last model; nothing is stored in the static partition
\* before that.
C27_InstallIsSequential ==
  [][/\ install.pc \in {"fetch", "put"} => install.i \in 1..Len(MODEL_ASSETS)
     /\ install.pc = "put" => Ok(install.response)
     /\ install'.i # install.i =>
          /\ install'.i = install.i + 1
          /\ install'.pc = "fetch"
          /\ \/ install.pc = "idle" /\ install.i = 0
             \/ InstallAttemptSettles
     /\ (install'.pc = "put" /\ install.pc # "put") =>
          /\ install.pc = "fetch"
          /\ install'.i = install.i
          /\ entries' = entries
     /\ (install'.pc = "addAll" /\ install.pc # "addAll") =>
          /\ install.i = Len(MODEL_ASSETS)
          /\ install'.i = install.i
          /\ InstallAttemptSettles
     /\ (install.pc \in {"idle", "fetch", "put"}) =>
          \A e \in entries' : e[1] # CACHE_NAMES.static]_vars

\* The fetch of the third model is in flight, the first model stored and the
\* fetch of the second failed.
C27_Witness ==
  /\ install.pc = "fetch"
  /\ install.i = 3
  /\ install.failures = 1
  /\ PartitionEntry(CACHE_NAMES.models, MODEL_ASSETS[1]) = Response(StatusOk, 1)
  /\ PartitionEntry(CACHE_NAMES.models, MODEL_ASSETS[2]) = None

\* The models of the manifest that the models partition holds.
InstalledModels ==
  {i \in 1..Len(MODEL_ASSETS) : PartitionEntry(CACHE_NAMES.models, MODEL_ASSETS[i]) # None}

\* C28: skipWaiting() is called, and the install event ends in success, only
\* once the attempt for every model has settled, stored or failed, and
\* addAll has stored every static asset; it is never called while the
\* handler waits for a fetch, a put or addAll, nor when addAll has failed,
\* and the activate event waits for it.
C28_SkipWaitingAfterAllSettled ==
  /\ install.skipWaiting <=> install.pc = "installed"
  /\ install.pc = "installed" =>
       /\ install.i = Len(MODEL_ASSETS)
       /\ install.response = None
       /\ Cardinality(InstalledModels) + install.failures = Len(MODEL_ASSETS)
       /\ \A url \in Range(STATIC_ASSETS) :
            PartitionEntry(CACHE_NAMES.static, url) = Response(StatusOk, 1)
  /\ install.pc = "failed" =>
       /\ install.i = Len(MODEL_ASSETS)
       /\ Cardinality(InstalledModels) + install.failures = Len(MODEL_ASSETS)
       /\ \A url \in Range(STATIC_ASSETS) : PartitionEntry(CACHE_NAMES.static, url) = None
  /\ activate.pc # "idle" => install.pc = "installed"

\* The installation has succeeded and skipWaiting() been called, two models
\* stored and the fetches of the others failed; the activate event has not
\* come yet.
C28_Witness ==
  /\ install.pc = "installed"
  /\ install.skipWaiting
  /\ install.failures = Len(MODEL_ASSETS) - 2
  /\ InstalledModels = {2, 5}
  /\ activate.pc = "idle"

\* C29: the activate handler calls clients.claim() only once every
\* caches.delete of a name that is not current has settled: from the call on,
\* no deletion is pending and storage holds no partition but the current
\* ones.
C29_ClaimAfterDeletions ==
  activate.pc \in {"claim", "activated"} =>
    /\ activate.names = {}
    /\ \A n \in CacheNames \ CurrentNames : ~present[n]

\* clients.claim() is pending, the three partitions the version before had
\* left deleted one after another.
C29_Witness ==
  /\ activate.pc = "claim"
  /\ \A n \in OldNames : gen[n] = 1 /\ ~present[n]

\* C30: no step of the activate handler deletes a partition with one of the
\* three current names or is about to, nor changes an entry: what
\* the current partitions held before the step they hold after it.
C30_ActivateKeepsCurrentPartitions ==
  [][activate' # activate =>
       /\ entries' = entries
       /\ \A n \in CurrentNames :
            /\ n \notin activate'.names
            /\ present'[n] = present[n]
            /\ gen'[n] = gen[n]
            /\ \A url \in Range(MODEL_ASSETS) \cup Range(STATIC_ASSETS) :
                 PartitionEntry(n, url)' = PartitionEntry(n, url)]_vars

\* The handler is done, a stale partition deleted; the models and static
\* partitions hold what the installation stored, every model and every
\* static asset.
C30_Witness ==
  /\ activate.pc = "activated"
  /\ gen["penta-static-v0"] = 1
  /\ \A i \in 1..Len(MODEL_ASSETS) :
       PartitionEntry(CACHE_NAMES.models, MODEL_ASSETS[i]) = Response(StatusOk, 1)
  /\ \A url \in Range(STATIC_ASSETS) :
       PartitionEntry(CACHE_NAMES.static, url) = Response(StatusOk, 1)
  /\ gen[CACHE_NAMES.models] = 0
  /\ gen[CACHE_NAMES.static] = 0

\* C31: on a network that settles every fetch of install, the installation
\* ends, in success or in failure; on one that leaves a fetch of install
\* unsettled for ever, the handler comes to wait for that fetch and stays
\* there: the installation never ends, skipWaiting() is never called and the
\* activate event never comes.
C31_InstallEndsUnlessFetchHangs ==
  /\ (install.hung = 0) => <>(install.pc \in {"installed", "failed"})
  /\ (install.hung # 0) =>
       /\ [](/\ install.pc \notin {"installed", "failed"}
             /\ ~install.skipWaiting
             /\ activate.pc = "idle")
       /\ <>[](/\ install.pc = (IF install.hung <= Len(MODEL_ASSETS) THEN "fetch" ELSE "addAll")
               /\ install.hung <= Len(MODEL_ASSETS) => install.i = install.hung)

\* The handler waits for the fetch of the fourth model, which never settles,
\* two of the models before it stored.
C31_Witness ==
  /\ install.hung = 4
  /\ install.pc = "fetch"
  /\ install.i = 4
  /\ install.failures = 1
  /\ ~install.skipWaiting
  /\ activate.pc = "idle"

\* The handler is a cacheFirst or a staleWhileRevalidate that has ended.
LookupFirstEnded(t) ==
  /\ t.strategy \in {"cacheFirst", "staleWhileRevalidate"}
  /\ t.pc \in {"returned", "threw"}

\* However the handlers interleave, a Cache object holds at most one entry
\* for a key, every entry is an ok response, and no handler fetches twice.
OneOkEntryPerKey ==
  /\ \A e1, e2 \in entries :
       (e1[1] = e2[1] /\ e1[2] = e2[2] /\ e1[3] = e2[3]) => e1 = e2
  /\ \A e \in entries : Ok(e[4])
  /\ \A t \in Running : t.fetches <= 1

PutPending ==
  (IF install.pc = "put" THEN {install.i} ELSE {})
    \cup (IF preload.pc = "put" THEN {preload.i} ELSE {})

\* Neither writer has a model left to attempt.
WritersEnded ==
  /\ install.pc \in {"addAll", "installed", "failed"}
  /\ preload.pc = "replied"

\* C33: however the install handler's model loop and a PRELOAD_MODELS run
\* interleave, the models partition holds one entry, an ok response, for
\* each manifest model that a fetch of either has succeeded for and whose
\* put has settled, no entry for any other manifest model, and no entry
\* under a key outside the manifest; once both have ended that is one entry
\* for each model either fetched with success, as after running the two one
\* after the other.
C33_InstallAndPreloadCommute ==
  /\ \A e \in entries :
       e[1] = CACHE_NAMES.models => e[3] \in Range(MODEL_ASSETS)
  /\ \A i \in 1..Len(MODEL_ASSETS) :
       LET held == {e \in entries : e[1] = CACHE_NAMES.models /\ e[3] = MODEL_ASSETS[i]}
           fetched == i \in install.fetched \cup preload.fetched
       IN /\ Cardinality(held) <= 1
          /\ \A e \in held : e[4] = Response(StatusOk, 1) /\ e[2] = gen[CACHE_NAMES.models]
          /\ held # {} => fetched
          /\ (fetched /\ held = {}) => i \in PutPending
          /\ (WritersEnded /\ fetched) => held # {}

\* Both writers have ended; both fetched the first model, the later put
\* replacing the earlier; install alone fetched the second and the run
\* alone the third, and no fetch of the other models succeeded.
C33_Witness ==
  /\ WritersEnded
  /\ install.fetched = {1, 2}
  /\ preload.fetched = {1, 3}
  /\ InstalledModels = {1, 2, 3}

\* C34 (as claimed): once the page's preloader has started, an idle pass is
\* scheduled, running or done, and it runs after the burst has ended.
C34_PassAlwaysRunsAfterBurst ==
  /\ page.pc # "idle" => page.pass.pc # "off"
  /\ page.pass.pc \in {"match", "done"} => page.pc = "ready"

\* C34 (amended): the idle pass, which a browser with requestIdleCallback
\* runs once the burst has been started, looks every model of the list up
\* in turn, starts a preloadWithFetch for the model when the models
\* partition does not hold it at that moment and none when it does, and
\* changes no entry itself; no preloadWithFetch of the pass starts
\* otherwise.
C34_PassRetriesMissingOnly ==
  [][/\ (page.pass.pc = "match" /\ page'.pass # page.pass) =>
          LET i == page.pass.i
              miss == PartitionEntry(CACHE_NAMES.models, PageModels[i]) = None
          IN /\ page.pc \in {"burst", "ready"}
             /\ page'.jobs[<<"pass", i>>] = (IF miss THEN "fetch" ELSE "idle")
             /\ \A j \in PageJobs \ {<<"pass", i>>} : page'.jobs[j] = page.jobs[j]
             /\ page'.pass.pc = (IF i < Len(PageModels) THEN "match" ELSE "done")
             /\ page'.pass.i = (IF i < Len(PageModels) THEN i + 1 ELSE i)
             /\ entries' = entries
     /\ \A j \in PageJobs :
          (j[1] = "pass" /\ page.jobs[j] = "idle" /\ page'.jobs[j] # "idle") =>
             /\ page.pass.pc = "match"
             /\ page.pass.i = j[2]
             /\ PartitionEntry(CACHE_NAMES.models, PageModels[j[2]]) = None
     /\ (page.pass.pc = "scheduled" /\ page'.pass.pc # "scheduled") =>
          page'.pass.pc = "match" /\ page'.pass.i = 1]_vars

\* The pass is done: the burst had stored the first model, which the pass
\* left alone; the burst's fetch of the second had failed, and the pass has
\* fetched and stored it.
C34_Witness ==
  /\ page.pc = "ready"
  /\ page.pass.pc = "done"
  /\ page.jobs[<<"burst", 1>>] = "done"
  /\ page.jobs[<<"pass", 1>>] = "idle"
  /\ page.jobs[<<"burst", 2>>] = "done"
  /\ page.jobs[<<"pass", 2>>] = "done"
  /\ page.stored = {1, 2}
  /\ \A i \in 1..2 :
       PartitionEntry(CACHE_NAMES.models, PageModels[i]) = Response(StatusOk, 1)

\* The handlers the worker runs for the fetch of job j.
HandlersFor(j) == {t \in Running : t.client = j}

\* C35 (as claimed): the worker runs no handler for a download of the
\* page's preloader.
C35_PageDownloadsBypassWorker ==
  \A j \in PageJobs : HandlersFor(j) = {}

\* C35 (amended): a download of the page's preloader bypasses the worker
\* only while the worker does not control the page: then the page alone
\* fetches and stores it and no handler of the worker runs for it.  The
\* download of a controlled page is a fetch event, for which the worker runs
\* cacheFirst on the models partition, once; the page stores the response
\* the worker returns to it.
C35_BypassOnlyIfUncontrolled ==
  \A j \in PageJobs :
    /\ page.jobs[j] = "fetch" => ~Controlled
    /\ page.jobs[j] = "worker" => Controlled
    /\ ~Controlled => HandlersFor(j) = {}
    /\ (Controlled /\ page.jobs[j] \in {"idle", "match", "cached"}) => HandlersFor(j) = {}
    /\ (Controlled /\ page.jobs[j] \in {"worker", "put", "done"}) =>
         /\ Cardinality(HandlersFor(j)) = 1
         /\ \A t \in HandlersFor(j) :
              /\ t.strategy = "cacheFirst"
              /\ t.request = PageModels[j[2]]
              /\ t.cache[1] = CACHE_NAMES.models
              /\ page.jobs[j] = "put" => t.pc = "returned" /\ Ok(t.result)
    /\ (j[1] = "burst" /\ j[2] \in page.stored) =>
         PartitionEntry(CACHE_NAMES.models, PageModels[j[2]]) = Response(StatusOk, 1)

\* The worker controls the page; for the last model of the page's list, the
\* only one missing, cacheFirst missed, fetched, returned the response and
\* stored it, and the page has stored it as well.
C35_Witness ==
  /\ Controlled
  /\ page.pc = "ready"
  /\ page.stored = {Len(PageModels)}
  /\ \E t \in HandlersFor(<<"burst", Len(PageModels)>>) :
       /\ t.fetches = 1
       /\ t.stored
       /\ t.put = None
       /\ t.result = Response(StatusOk, 1)

\* C36: whoever wrote it, the install handler, a strategy, preloadModels or
\* the page's preloader, every entry of every partition is an ok response,
\* and so is every response whose put is pending; a strategy whose fetch
\* resolved with a response that is not ok starts no put of it and stores
\* nothing, and returns that response to its caller unless it is a
\* staleWhileRevalidate that had returned its cached response.
C36_OnlyOkResponsesStored ==
  /\ \A e \in entries : Ok(e[4])
  /\ install.pc = "put" => Ok(install.response)
  /\ preload.pc = "put" => Ok(preload.response)
  /\ \A t \in Running :
       /\ t.put # None => Ok(t.put)
       /\ (t.networkResponse # None /\ ~Ok(t.networkResponse)) =>
            /\ t.put = None
            /\ ~t.stored
            /\ t.pc = "returned"
            /\ t.result = (IF t.strategy = "staleWhileRevalidate" /\ t.cachedResponse # None
                             THEN t.cachedResponse ELSE t.networkResponse)

\* A cacheFirst handler has returned the network's error response to its
\* caller, and the models partition, which holds the manifest's models,
\* holds nothing for the request.
C36_Witness ==
  /\ \E t \in Running :
       /\ t.strategy = "cacheFirst"
       /\ t.pc = "returned"
       /\ t.networkResponse # None
       /\ ~Ok(t.networkResponse)
       /\ t.result = t.networkResponse
       /\ PartitionEntry(CACHE_NAMES.models, t.request) = None
  /\ InstalledModels = 1..Len(MODEL_ASSETS)

\* With this step a fetch of a strategy, of the install handler's loop or of
\* preloadModels settles in failure: it rejects, or resolves with a response
\* that is not ok.
FetchFailsNow ==
  \/ \E t \in Running : \E t2 \in BagToSet(tasks') :
       /\ Moved(t, t2)
       /\ t.fetching
       /\ ~t2.fetching
       /\ ~Ok(t2.networkResponse)
  \/ install.pc = "fetch" /\ install'.failures = install.failures + 1
  \/ preload.pc = "fetch" /\ preload' # preload /\ preload'.pc # "put"

C38_StatusChangesNothing ==
  [][status' # status =>
       /\ entries' = entries
       /\ present' = present
       /\ gen' = gen
       /\ <<tasks, clear, install, activate, preload, unknown, page>>'
            = <<tasks, clear, install, activate, preload, unknown, page>>]_vars

\* C38 (amended): a step of the CACHE_STATUS handler starts no fetch and
\* changes no entry, and deletes no partition; the caches.open of
\* getCacheStatus creates the models partition, empty, when storage did not
\* hold it, and the set of partitions is otherwise as it was.
C38_StatusOnlyOpensModels ==
  [][status' # status =>
       /\ entries' = entries
       /\ gen' = gen
       /\ \A n \in CacheNames \ {CACHE_NAMES.models} : present'[n] = present[n]
       /\ present[CACHE_NAMES.models] => present'[CACHE_NAMES.models]
       /\ (~present[CACHE_NAMES.models] /\ present'[CACHE_NAMES.models]) =>
            /\ status.pc \in {"idle", "replied"}
            /\ status'.pc = "keys"
            /\ KeysOf(entries', status'.cache) = {}
       /\ <<tasks, clear, install, activate, preload, unknown, page>>'
            = <<tasks, clear, install, activate, preload, unknown, page>>]_vars

\* The status of a storage that held no partition has been posted: no model
\* cached, and the models partition now there, empty.
C38_Witness ==
  /\ status.pc = "replied"
  /\ status.reply.cachedCount = 0
  /\ preload.pc = "idle"
  /\ present[CACHE_NAMES.models]
  /\ entries = {}

\* C39: when addAll(STATIC_ASSETS) has rejected and the installation failed,
\* the models partition is still there and holds every model the handler's
\* loop had fetched and stored in that run.
C39_FailedInstallKeepsModels ==
  install.pc = "failed" =>
    /\ present[CACHE_NAMES.models]
    /\ gen[CACHE_NAMES.models] = 0
    /\ \A i \in install.fetched :
         PartitionEntry(CACHE_NAMES.models, MODEL_ASSETS[i]) = Response(StatusOk, 1)
    /\ InstalledModels = install.fetched

\* The installation has failed on its static assets, after its loop had
\* stored three models and failed to fetch the three others.
C39_Witness ==
  /\ install.pc = "failed"
  /\ install.fetched = {1, 3, 5}
  /\ install.failures = 3
  /\ InstalledModels = {1, 3, 5}
  /\ \A url \in Range(STATIC_ASSETS) : PartitionEntry(CACHE_NAMES.static, url) = None

====
